---- MODULE Spec2Model ----
(***************************************************************************)
(* A model of the azureblob and webdav backends of rclone and of the       *)
(* command runner, as state machines.                                      *)
(*                                                                         *)
(* Sizes (size, ChunkSize, UploadCutoff, maxChunkSize) are counted in MiB: *)
(* every computation on them below is integer division, remainder,         *)
(* doubling and comparison, which commute with the unit.                   *)
(***************************************************************************)
EXTENDS Integers, Sequences, FiniteSets, TLC

\* ------------------------------------------------------------------------
\* Bounds of the model
\* ------------------------------------------------------------------------
NumProcs == 2        \* concurrent callers on one Fs
MaxSize == 4         \* largest source size (MiB) of the concurrency model
MaxChunk == 2        \* largest configured ChunkSize (MiB) of the concurrency model
MaxParts == 2        \* most parts the chunked uploads under way have together
MaxTransfers == 2    \* largest fs.Config.Transfers
Retries == 2         \* attempts the pacer makes for one Call
MaxRunParts == 75    \* longest part loop the model steps through
ScenarioParts == 100 \* the part limit of the second chunk scenario
FewParts == 4        \* a part limit that short uploads reach
MaxCalls == 2        \* calls one caller makes on the Fs
MaxTries == 3        \* largest fs.Config.Retries of a command
MaxArgsGiven == 3    \* most arguments given to a command
MaxPolls == 3        \* polls of the copy status in one Copy
MaxDepth == 3        \* elements of the longest native path of the model

Procs == 1..NumProcs

\* ------------------------------------------------------------------------
\* Program constants (azureblob)
\* ------------------------------------------------------------------------
maxTotalParts == 50000
maxChunkSize == 100

\* ------------------------------------------------------------------------
\* Errors.  An error value is its cause and the message errors.Wrap put in
\* front of it; errors.Wrap(nil, msg) is nil.
\* ------------------------------------------------------------------------
Nil == [cause |-> "nil", wrap |-> ""]
Err(c) == [cause |-> c, wrap |-> ""]
Wrap(e, msg) == IF e = Nil THEN Nil ELSE [cause |-> e.cause, wrap |-> msg]

\* fserrors.ShouldRetry / retryErrorCodes: the causes the backend retries
RetryCauses == {"http503", "http423"}
shouldRetry(e) == e # Nil /\ e.cause \in RetryCauses

\* what a service call can answer
StageOutcomes == {Nil, Err("http503"), Err("http403")}
ReadOutcomes == {Nil, Err("io")}
CommitOutcomes == {Nil, Err("http503"), Err("http403")}

\* ------------------------------------------------------------------------
\* Pure functions of uploadMultipart
\* ------------------------------------------------------------------------
\* number of parts of size chunk needed for size
PartsFor(sz, chunk) == (sz \div chunk) + (IF sz % chunk # 0 THEN 1 ELSE 0)

\* the chunk size loop: doubles chunk until the part count is below limit;
\* fails when a doubled chunk exceeds maxChunkSize
RECURSIVE CalcChunk(_, _, _)
CalcChunk(sz, chunk, limit) ==
    IF PartsFor(sz, chunk) < limit
    THEN [ok |-> TRUE, chunkSize |-> chunk, totalParts |-> PartsFor(sz, chunk)]
    ELSE IF chunk * 2 > maxChunkSize
         THEN [ok |-> FALSE, chunkSize |-> chunk * 2, totalParts |-> PartsFor(sz, chunk)]
         ELSE CalcChunk(sz, chunk * 2, limit)

\* blockIDIntToBase64: 8 bytes little endian (base64 of them is one to one
\* and of fixed length, so the bytes stand for the encoded id)
RECURSIVE Pow256(_)
Pow256(i) == IF i = 0 THEN 1 ELSE 256 * Pow256(i - 1)
blockIDIntToBase64(n) == [i \in 1..8 |-> IF i <= 4 THEN (n \div Pow256(i - 1)) % 256 ELSE 0]
EmptyID == << >>

\* make([]string, n)
MakeStrings(n) == [i \in 1..n |-> EmptyID]

Min(a, b) == IF a < b THEN a ELSE b

\* ------------------------------------------------------------------------
\* State
\* ------------------------------------------------------------------------
VARIABLES
    opt,              \* Fs.opt: ChunkSize, UploadCutoff
    partLimit,        \* maxTotalParts of the build
    transfers,        \* fs.Config.Transfers
    uploadToken,      \* tokens left in Fs.uploadToken
    containerOK,      \* Fs.containerOK
    containerDeleted, \* Fs.containerDeleted
    containerOKMu,    \* holder of Fs.containerOKMu, 0 when free
    svc,              \* the service: container exists, blobs stored
    pc,               \* position of each caller
    op,               \* operation each caller runs
    ret,              \* the error the operation returned
    up,               \* locals of Update / uploadMultipart per caller
    gor,              \* part goroutines of each caller's uploadMultipart
    hist,             \* what has happened (history, for the properties)
    cmd,              \* the command runner: cmd.Run, CheckArgs, resolveExitCode
    gen,              \* the generator of the open test matrix
    obj,              \* an azureblob Object and the blob it stands for
    query,            \* the argument and the result of a pure function
    fsh               \* the fields of an Fs that NewFs sets, and its construction

\* the state beside the Fs: the backend actions leave it alone
sideVars == <<cmd, gen, obj, query, fsh>>
\* what no backend action changes: the configuration and the state beside it
cfgVars == <<opt, partLimit, transfers, sideVars>>
fsVars == <<containerOK, containerDeleted, containerOKMu>>
\* the state of the Fs, of its callers and of the service
backendVars == <<opt, partLimit, transfers, uploadToken, fsVars, svc, pc, op, ret, up, gor, hist>>
vars == <<opt, partLimit, transfers, uploadToken, containerOK, containerDeleted,
          containerOKMu, svc, pc, op, ret, up, gor, hist, cmd, gen, obj, query, fsh>>

\* the components beside the Fs when they are not in use
Unused == [pc |-> "unused"]
InitSide ==
    /\ cmd = Unused
    /\ gen = Unused
    /\ obj = Unused
    /\ query = Unused
    /\ fsh = Unused

\* locals of an Update that has not started
UpIdle == [size |-> 0, srcMD5 |-> FALSE, path |-> "none", md5sent |-> FALSE,
           uerr |-> Nil, chunkSize |-> 0, totalParts |-> 0, part |-> 0,
           remaining |-> 0, position |-> 0, err |-> Nil, errs |-> << >>,
           rawID |-> 0, blocks |-> << >>, tries |-> 0,
           arg |-> << >>, slash |-> FALSE, root |-> << >>, depth |-> "1",
           ans |-> "none", hasFs |-> FALSE, hasObj |-> FALSE, entries |-> {},
           stack |-> << >>, sameType |-> TRUE, src |-> << >>]

\* no remote, and no call before this one
NoStore == [container |-> "none", blobs |-> {}, files |-> {}, dirs |-> {}]
NoCall == [op |-> "none", arg |-> << >>, ret |-> Nil, failed |-> FALSE,
           before |-> NoStore, after |-> NoStore]

HistIdle == [creates |-> 0, readFailed |-> FALSE, stageFailed |-> FALSE,
             staged |-> FALSE, commitCalls |-> 0, commitOK |-> 0,
             lateStage |-> FALSE, earlyCommit |-> FALSE,
             memo |-> FALSE, sawOK |-> FALSE, badCreate |-> FALSE, calls |-> 0,
             requests |-> 0, lookups |-> 0, deletes |-> 0,
             hadEntry |-> FALSE, missing |-> FALSE, gone |-> FALSE,
             mkcol |-> [d \in 1..MaxDepth |-> 0], mkcalls |-> [d \in 1..MaxDepth |-> 0],
             failed |-> FALSE, puts |-> 0, putErr |-> Nil, parentNil |-> FALSE, parentErr |-> FALSE,
             before |-> NoStore, prev |-> NoCall]

\* this Fs has seen the container exist (a Mkdir or a listing succeeded) and
\* has not deleted it since
Known == \E q \in Procs : hist[q].sawOK

\* part goroutines between uploadToken.Get() and uploadToken.Put()
Running(p) == {i \in 1..Len(gor[p]) : gor[p][i].pc # "done"}
InFlight == Cardinality({<<p, i>> \in Procs \X (1..MaxParts) :
                           i <= Len(gor[p]) /\ gor[p][i].pc # "done"})

\* ------------------------------------------------------------------------
\* Helpers of the callers
\* ------------------------------------------------------------------------
\* the operation of caller p returns e
Return(p, e) ==
    /\ pc' = [pc EXCEPT ![p] = "done"]
    /\ ret' = [ret EXCEPT ![p] = e]

\* pacer.TokenDispenser: Get blocks until a token is there, Put gives it back
TokenGet == uploadToken > 0 /\ uploadToken' = uploadToken - 1
TokenPut == uploadToken' = uploadToken + 1

\* ------------------------------------------------------------------------
\* azureblob Fs.Mkdir
\* ------------------------------------------------------------------------
\* where Mkdir returns to: Update goes on when Mkdir gave no error
MkdirReturn(p, e) ==
    IF op[p] \in {"Update", "Copy"} /\ e = Nil
    THEN /\ pc' = [pc EXCEPT ![p] = IF op[p] = "Update" THEN "upd_choose" ELSE "copy_check"]
         /\ UNCHANGED ret
    ELSE Return(p, IF e = Nil THEN Nil ELSE Wrap(e, "failed to make container"))

\* Lock; containerOK is set: return nil (the deferred Unlock runs at once)
MkdirMemo(p) ==
    /\ pc[p] = "mkdir"
    /\ containerOKMu = 0
    /\ containerOK
    /\ MkdirReturn(p, Nil)
    /\ hist' = [hist EXCEPT ![p].memo = TRUE, ![p].sawOK = TRUE]
    /\ UNCHANGED <<cfgVars, uploadToken, fsVars, svc, op, up, gor>>

\* variant: Mkdir without containerOKMu
MkdirNoLock(p) ==
    /\ pc[p] = "mkdir"
    /\ ~containerOK
    /\ containerOKMu' = p
    /\ pc' = [pc EXCEPT ![p] = "mkdir_create"]
    /\ up' = [up EXCEPT ![p].tries = 0]
    /\ hist' = [hist EXCEPT ![p].creates = @ + 1, ![p].badCreate = Known]
    /\ UNCHANGED <<cfgVars, uploadToken, containerOK, containerDeleted, svc, op, ret, gor>>

\* Lock; containerOK is not set: go on to create the container, lock held
MkdirLock(p) ==
    /\ pc[p] = "mkdir"
    /\ containerOKMu = 0
    /\ ~containerOK
    /\ containerOKMu' = p
    /\ pc' = [pc EXCEPT ![p] = "mkdir_create"]
    /\ up' = [up EXCEPT ![p].tries = 0]
    /\ hist' = [hist EXCEPT ![p].creates = @ + 1, ![p].badCreate = Known]
    /\ UNCHANGED <<cfgVars, uploadToken, containerOK, containerDeleted, svc, op, ret, gor>>

\* the pacer has made its last attempt, or the function asked for no retry
PacerStops(retry, tries) == ~retry \/ tries >= Retries

\* the answer to one Create request, and what the pacer function and the
\* lines after pacer.Call do with it
MkdirCreate(p) ==
    /\ pc[p] = "mkdir_create"
    /\ \E r \in (CASE svc.container = "present" -> {Err("ContainerAlreadyExists")}
                   [] svc.container = "deleting" -> {Err("ContainerBeingDeleted")}
                   [] OTHER -> {Nil}) \cup {Err("http503"), Err("http403")} :
         LET n == up[p].tries + 1
             exists == r.cause = "ContainerAlreadyExists"
             beingDeleted == r.cause = "ContainerBeingDeleted"
             retry == IF exists THEN FALSE ELSE IF beingDeleted THEN TRUE ELSE shouldRetry(r)
             e == IF exists THEN Nil ELSE r
         IN /\ svc' = IF r = Nil THEN [svc EXCEPT !.container = "present"] ELSE svc
            /\ IF PacerStops(retry, n)
               THEN /\ containerOK' = (exists \/ e = Nil \/ containerOK)
                    /\ containerDeleted' = (IF e = Nil THEN FALSE
                                            ELSE (beingDeleted \/ containerDeleted))
                    /\ containerOKMu' = 0
                    /\ MkdirReturn(p, e)
                    /\ hist' = [q \in Procs |->
                                 [hist[q] EXCEPT
                                    !.sawOK = IF q = p THEN (@ \/ e = Nil) ELSE @,
                                    !.gone = IF e = Nil THEN FALSE ELSE @,
                                    !.failed = IF q = p THEN r.cause \in {"http503", "http403"}
                                               ELSE @]]
                    /\ UNCHANGED up
               ELSE /\ containerOK' = containerOK
                    /\ containerDeleted' = (beingDeleted \/ containerDeleted)
                    /\ up' = [up EXCEPT ![p].tries = n]
                    /\ hist' = [hist EXCEPT ![p].creates = @ + 1]
                    /\ UNCHANGED <<containerOKMu, pc, ret>>
    /\ UNCHANGED <<cfgVars, uploadToken, op, gor>>

\* ------------------------------------------------------------------------
\* azureblob Object.Update
\* ------------------------------------------------------------------------
SizesUp == (-1)..MaxSize

\* Content-MD5 is set for PutBlob requests only
SendsMD5(sz, h) == sz < opt.UploadCutoff /\ h
\* variant: a file of exactly UploadCutoff goes in one request
UsesMultipartAbove(sz) == sz > opt.UploadCutoff
\* a large file is uploaded in chunks
UsesMultipart(sz) == sz >= opt.UploadCutoff

\* what an Update of sz costs the model: its parts, or one for a small blob
Units(sz, chunk, cutoff) == IF sz >= cutoff /\ sz > 0 THEN PartsFor(sz, chunk) ELSE 1
RECURSIVE SumUnits(_, _, _, _)
SumUnits(S, sizes, chunk, cutoff) ==
    IF S = {} THEN 0
    ELSE LET q == CHOOSE x \in S : TRUE
         IN Units(sizes[q], chunk, cutoff) + SumUnits(S \ {q}, sizes, chunk, cutoff)

\* a caller starts Update(in, src): err = o.fs.Mkdir("")
CallUpdate(p) ==
    /\ pc[p] = "idle"
    /\ op[p] = "Update"
    /\ pc' = [pc EXCEPT ![p] = "mkdir"]
    /\ UNCHANGED <<cfgVars, uploadToken, fsVars, svc, op, ret, up, gor, hist>>

UpdateChoose(p) ==
    /\ pc[p] = "upd_choose"
    /\ up' = [up EXCEPT ![p].md5sent = SendsMD5(up[p].size, up[p].srcMD5),
                        ![p].srcMD5 = FALSE]   \* src.Hash is not read again
    /\ pc' = [pc EXCEPT ![p] = IF UsesMultipart(up[p].size) THEN "um_start" ELSE "single"]
    /\ UNCHANGED <<cfgVars, uploadToken, fsVars, svc, op, ret, gor, hist>>

\* azblob.UploadStreamToBlockBlob: a small blob in one transaction
UploadSingle(p) ==
    /\ pc[p] = "single"
    /\ \E r \in (IF svc.container = "present" THEN {Nil} ELSE {Err("ContainerNotFound")})
                    \cup {Err("http503"), Err("http403")} :
         /\ up' = [up EXCEPT ![p].uerr = r, ![p].path = "single"]
         /\ svc' = IF r = Nil THEN [svc EXCEPT !.blobs = @ \cup {p}] ELSE svc
    /\ pc' = [pc EXCEPT ![p] = "upd_after"]
    /\ UNCHANGED <<cfgVars, uploadToken, fsVars, op, ret, gor, hist>>

\* after CallNoRetry: return its error, else clearMetaData and readMetaData
UpdateAfter(p) ==
    /\ pc[p] = "upd_after"
    /\ IF up[p].uerr # Nil
       THEN Return(p, up[p].uerr)
       ELSE pc' = [pc EXCEPT ![p] = "upd_meta"] /\ UNCHANGED ret
    /\ UNCHANGED <<cfgVars, uploadToken, fsVars, svc, op, up, gor, hist>>

\* readMetaData: GetProperties on the blob
UpdateReadMeta(p) ==
    /\ pc[p] = "upd_meta"
    /\ \E r \in (IF p \in svc.blobs THEN {Nil} ELSE {Err("BlobNotFound")}) \cup {Err("http403")} :
         Return(p, IF r.cause = "BlobNotFound" THEN Err("ErrorObjectNotFound") ELSE r)
    /\ UNCHANGED <<cfgVars, uploadToken, fsVars, svc, op, up, gor, hist>>

\* ------------------------------------------------------------------------
\* azureblob Object.uploadMultipart: the reading loop
\* ------------------------------------------------------------------------
\* uploadMultipart returns e to the function Update gave to CallNoRetry
UploadReturn(p, e) ==
    /\ pc' = [pc EXCEPT ![p] = "upd_after"]
    /\ up' = [up EXCEPT ![p].uerr = e, ![p].err = e]

\* calculate the chunk size; make the block list; start the loop
UploadStart(p) ==
    /\ pc[p] = "um_start"
    /\ LET c == CalcChunk(up[p].size, opt.ChunkSize, partLimit)
       IN IF ~c.ok
          THEN /\ pc' = [pc EXCEPT ![p] = "upd_after"]
               /\ up' = [up EXCEPT ![p].uerr = Err("too big"), ![p].err = Err("too big"),
                                    ![p].path = "multipart"]
          ELSE /\ up' = [up EXCEPT ![p].path = "multipart",
                                   ![p].chunkSize = c.chunkSize,
                                   ![p].totalParts = c.totalParts,
                                   ![p].blocks = MakeStrings(c.totalParts),
                                   ![p].rawID = 0,
                                   ![p].remaining = up[p].size,
                                   ![p].position = 0,
                                   ![p].part = 0,
                                   ![p].errs = << >>,
                                   ![p].err = Nil]
               /\ pc' = [pc EXCEPT ![p] = "um_loop"]
    /\ UNCHANGED <<cfgVars, uploadToken, fsVars, svc, op, ret, gor, hist>>

\* the loop condition and the select on errs at the head of the loop
UploadLoop(p) ==
    /\ pc[p] = "um_loop"
    /\ up[p].totalParts <= MaxRunParts
    /\ IF up[p].part >= up[p].totalParts
       THEN pc' = [pc EXCEPT ![p] = "um_wait"] /\ UNCHANGED up
       ELSE IF up[p].errs # << >>
            THEN /\ up' = [up EXCEPT ![p].err = Head(up[p].errs), ![p].errs = << >>]
                 /\ pc' = [pc EXCEPT ![p] = "um_wait"]
            ELSE pc' = [pc EXCEPT ![p] = "um_read"] /\ UNCHANGED up
    /\ UNCHANGED <<cfgVars, uploadToken, fsVars, svc, op, ret, gor, hist>>

\* _, err = io.ReadFull(in, buf)
UploadRead(p) ==
    /\ pc[p] = "um_read"
    /\ \E r \in ReadOutcomes :
         /\ up' = [up EXCEPT ![p].err = r]
         /\ hist' = [hist EXCEPT ![p].readFailed = @ \/ r # Nil]
    /\ pc' = [pc EXCEPT ![p] = "um_readchk"]
    /\ UNCHANGED <<cfgVars, uploadToken, fsVars, svc, op, ret, gor>>

\* if err != nil { err = errors.Wrap(err, ...); break outer }
UploadReadCheck(p) ==
    /\ pc[p] = "um_readchk"
    /\ IF up[p].err # Nil
       THEN /\ up' = [up EXCEPT ![p].err = Wrap(up[p].err, "multipart upload failed to read source")]
            /\ pc' = [pc EXCEPT ![p] = "um_wait"]
       ELSE pc' = [pc EXCEPT ![p] = "um_spawn"] /\ UNCHANGED up
    /\ UNCHANGED <<cfgVars, uploadToken, fsVars, svc, op, ret, gor, hist>>

\* the goroutine started for a part
NewGoroutine(p, id) ==
    [pc |-> "stage", part |-> up[p].part, position |-> up[p].position,
     reqSize |-> Min(up[p].remaining, up[p].chunkSize), blockID |-> id,
     tries |-> 0, last |-> Nil, res |-> Nil]

\* a goroutine that has returned: its locals are gone
Finished(g) == [g EXCEPT !.pc = "done", !.tries = 0, !.last = Nil, !.res = Nil]

\* variant: the goroutine is started without uploadToken.Get()
UploadSpawnNoGet(p) ==
    /\ pc[p] = "um_spawn"
    /\ LET id == blockIDIntToBase64(up[p].rawID + 1)
       IN /\ gor' = [gor EXCEPT ![p] = Append(@, NewGoroutine(p, id))]
          /\ up' = [up EXCEPT ![p].rawID = @ + 1,
                              ![p].blocks = Append(@, id),
                              ![p].remaining = @ - up[p].chunkSize,
                              ![p].position = @ + up[p].chunkSize,
                              ![p].part = @ + 1]
    /\ pc' = [pc EXCEPT ![p] = "um_loop"]
    /\ UNCHANGED <<cfgVars, uploadToken, fsVars, svc, op, ret, hist>>

\* nextID(); wg.Add(1); uploadToken.Get(); go func(...); ready for next block
UploadSpawn(p) ==
    /\ pc[p] = "um_spawn"
    /\ TokenGet
    /\ LET id == blockIDIntToBase64(up[p].rawID + 1)
       IN /\ gor' = [gor EXCEPT ![p] = Append(@, NewGoroutine(p, id))]
          /\ up' = [up EXCEPT ![p].rawID = @ + 1,
                              ![p].blocks = Append(@, id),
                              ![p].remaining = @ - up[p].chunkSize,
                              ![p].position = @ + up[p].chunkSize,
                              ![p].part = @ + 1]
    /\ pc' = [pc EXCEPT ![p] = "um_loop"]
    /\ UNCHANGED <<cfgVars, fsVars, svc, op, ret, hist>>

\* variant: the loop's end does not wait for the part goroutines
UploadNoWait(p) ==
    /\ pc[p] = "um_wait"
    /\ pc' = [pc EXCEPT ![p] = "um_final"]
    /\ UNCHANGED <<cfgVars, uploadToken, fsVars, svc, op, ret, up, gor, hist>>

\* wg.Wait()
UploadWait(p) ==
    /\ pc[p] = "um_wait"
    /\ Running(p) = {}
    /\ pc' = [pc EXCEPT ![p] = "um_final"]
    /\ UNCHANGED <<cfgVars, uploadToken, fsVars, svc, op, ret, up, gor, hist>>

\* if err == nil { select { case err = <-errs: default: } }; if err != nil { return err }
UploadFinal(p) ==
    /\ pc[p] = "um_final"
    /\ LET e == IF up[p].err = Nil /\ up[p].errs # << >> THEN Head(up[p].errs) ELSE up[p].err
       IN IF e # Nil
          THEN UploadReturn(p, e)
          ELSE /\ pc' = [pc EXCEPT ![p] = "um_commit"]
               /\ up' = [up EXCEPT ![p].tries = 0,
                                   ![p].errs = IF up[p].err = Nil THEN << >> ELSE @]
    /\ UNCHANGED <<cfgVars, uploadToken, fsVars, svc, op, ret, gor, hist>>

\* pacer.Call: one CommitBlockList request and its answer
UploadCommit(p) ==
    /\ pc[p] = "um_commit"
    /\ \E r \in CommitOutcomes :
         LET n == up[p].tries + 1
         IN /\ hist' = [hist EXCEPT ![p].commitCalls = @ + 1,
                                    ![p].commitOK = @ + (IF r = Nil THEN 1 ELSE 0),
                                    ![p].earlyCommit = @ \/ Running(p) # {}]
            /\ svc' = IF r = Nil THEN [svc EXCEPT !.blobs = @ \cup {p}] ELSE svc
            /\ IF PacerStops(shouldRetry(r), n)
               THEN UploadReturn(p, Wrap(r, "multipart upload failed to finalize"))
               ELSE up' = [up EXCEPT ![p].tries = n] /\ UNCHANGED pc
    /\ UNCHANGED <<cfgVars, uploadToken, fsVars, op, ret, gor>>

\* ------------------------------------------------------------------------
\* azureblob Object.uploadMultipart: the goroutine of one part.  It has no
\* err of its own: every err below is uploadMultipart's named result, which
\* the reading loop and all part goroutines share.
\* ------------------------------------------------------------------------
\* _, err = blockBlobURL.StageBlock(ctx, blockID, rs, ac)
PartStage(p, i) ==
    /\ i \in 1..Len(gor[p])
    /\ gor[p][i].pc = "stage"
    /\ \E r \in StageOutcomes :
         /\ gor' = [gor EXCEPT ![p][i].pc = "retry", ![p][i].tries = @ + 1, ![p][i].last = r]
         /\ up' = [up EXCEPT ![p].err = r]
    /\ hist' = [hist EXCEPT ![p].staged = TRUE,
                            ![p].lateStage = @ \/ hist[p].commitCalls > 0]
    /\ UNCHANGED <<cfgVars, uploadToken, fsVars, svc, pc, op, ret>>

\* return o.fs.shouldRetry(err), and the pacer's decision to call again
PartRetry(p, i) ==
    /\ i \in 1..Len(gor[p])
    /\ gor[p][i].pc = "retry"
    /\ LET e == up[p].err
       IN IF PacerStops(shouldRetry(e), gor[p][i].tries)
          THEN /\ gor' = [gor EXCEPT ![p][i].pc = "assign", ![p][i].res = e]
               /\ hist' = [hist EXCEPT ![p].stageFailed = @ \/ gor[p][i].last # Nil]
          ELSE /\ gor' = [gor EXCEPT ![p][i].pc = "stage"]
               /\ UNCHANGED hist
    /\ UNCHANGED <<cfgVars, uploadToken, fsVars, svc, pc, op, ret, up>>

\* err = o.fs.pacer.Call(...)
PartAssign(p, i) ==
    /\ i \in 1..Len(gor[p])
    /\ gor[p][i].pc = "assign"
    /\ up' = [up EXCEPT ![p].err = gor[p][i].res]
    /\ gor' = [gor EXCEPT ![p][i].pc = "check"]
    /\ UNCHANGED <<cfgVars, uploadToken, fsVars, svc, pc, op, ret, hist>>

\* if err != nil { ... }; otherwise the deferred Put and Done
PartCheck(p, i) ==
    /\ i \in 1..Len(gor[p])
    /\ gor[p][i].pc = "check"
    /\ IF up[p].err # Nil
       THEN gor' = [gor EXCEPT ![p][i].pc = "report"] /\ UNCHANGED uploadToken
       ELSE gor' = [gor EXCEPT ![p][i] = Finished(@)] /\ TokenPut
    /\ UNCHANGED <<cfgVars, fsVars, svc, pc, op, ret, up, hist>>

\* variant: the part goroutine waits until errs has room for its error
PartReportBlocking(p, i) ==
    /\ i \in 1..Len(gor[p])
    /\ gor[p][i].pc = "report"
    /\ up[p].errs = << >>
    /\ LET w == Wrap(up[p].err, "multipart upload failed to upload part")
       IN up' = [up EXCEPT ![p].err = w, ![p].errs = <<w>>]
    /\ gor' = [gor EXCEPT ![p][i] = Finished(@)]
    /\ TokenPut
    /\ UNCHANGED <<cfgVars, fsVars, svc, pc, op, ret, hist>>

\* err = errors.Wrap(err, ...); select { case errs <- err: default: }; return
PartReport(p, i) ==
    /\ i \in 1..Len(gor[p])
    /\ gor[p][i].pc = "report"
    /\ LET w == Wrap(up[p].err, "multipart upload failed to upload part")
       IN up' = [up EXCEPT ![p].err = w,
                           ![p].errs = IF @ = << >> THEN <<w>> ELSE @]
    /\ gor' = [gor EXCEPT ![p][i] = Finished(@)]
    /\ TokenPut
    /\ UNCHANGED <<cfgVars, fsVars, svc, pc, op, ret, hist>>

\* ------------------------------------------------------------------------
\* Concurrent Update calls on one Fs
\* ------------------------------------------------------------------------
\* the Fs as NewFs leaves it
InitFs ==
    /\ uploadToken = transfers
    /\ containerOK = FALSE
    /\ containerDeleted = FALSE
    /\ containerOKMu = 0
    /\ pc = [p \in Procs |-> "idle"]
    /\ ret = [p \in Procs |-> Nil]
    /\ gor = [p \in Procs |-> << >>]
    /\ hist = [p \in Procs |-> HistIdle]
    /\ InitSide

\* the callers that run Update, each with src.Size() and whether src has an
\* MD5; the others do not call
InitUpload ==
    /\ opt \in [ChunkSize : 1..MaxChunk, UploadCutoff : {2}]
    /\ partLimit = maxTotalParts
    /\ transfers \in 1..MaxTransfers
    /\ svc \in [container : {"absent", "present"}, blobs : {{}}, files : {{}}, dirs : {{}}]
    /\ InitFs
    /\ op \in [Procs -> {"Update", "none"}]
    /\ \E sizes \in [Procs -> SizesUp], md5s \in [Procs -> BOOLEAN] :
         /\ SumUnits({p \in Procs : op[p] = "Update"}, sizes, opt.ChunkSize, opt.UploadCutoff) <= MaxParts
         /\ \A p \in Procs : op[p] = "none" => sizes[p] = 0 /\ ~md5s[p]
         /\ up = [p \in Procs |-> [UpIdle EXCEPT !.size = sizes[p], !.srcMD5 = md5s[p]]]

NextUpload ==
    \E p \in Procs :
        \/ CallUpdate(p)
        \/ MkdirMemo(p)
        \/ MkdirLock(p)
        \/ MkdirCreate(p)
        \/ UpdateChoose(p)
        \/ UploadSingle(p)
        \/ UpdateAfter(p)
        \/ UpdateReadMeta(p)
        \/ UploadStart(p)
        \/ UploadLoop(p)
        \/ UploadRead(p)
        \/ UploadReadCheck(p)
        \/ UploadSpawn(p)
        \/ UploadWait(p)
        \/ UploadFinal(p)
        \/ UploadCommit(p)
        \/ \E i \in 1..MaxParts :
              \/ PartStage(p, i)
              \/ PartRetry(p, i)
              \/ PartAssign(p, i)
              \/ PartCheck(p, i)
              \/ PartReport(p, i)

SpecUpload == InitUpload /\ [][NextUpload]_vars

\* the steps of the goroutine that runs Update for caller p, and of the
\* goroutine of its part i
UpdateStep(p) ==
    \/ CallUpdate(p) \/ MkdirMemo(p) \/ MkdirLock(p) \/ MkdirCreate(p)
    \/ UpdateChoose(p) \/ UploadSingle(p) \/ UpdateAfter(p) \/ UpdateReadMeta(p)
    \/ UploadStart(p) \/ UploadLoop(p) \/ UploadRead(p) \/ UploadReadCheck(p)
    \/ UploadSpawn(p) \/ UploadWait(p) \/ UploadFinal(p) \/ UploadCommit(p)
PartStep(p, i) ==
    PartStage(p, i) \/ PartRetry(p, i) \/ PartAssign(p, i) \/ PartCheck(p, i) \/ PartReport(p, i)

\* the same calls when every goroutine that can take a step takes one in the
\* end: the scheduler runs each runnable goroutine, and every read and
\* every request returns
SpecUploadFair ==
    /\ InitUpload
    /\ [][NextUpload]_vars
    /\ \A p \in Procs :
         /\ WF_vars(UpdateStep(p))
         /\ \A i \in 1..MaxParts : WF_vars(PartStep(p, i))

\* ------------------------------------------------------------------------
\* One Update of a large file: the chunk size and the number of parts
\* ------------------------------------------------------------------------
\* <<src.Size(), ChunkSize, part limit>>, in MiB: on both sides of the part
\* limit and of maxChunkSize, after no, one, two doublings
ChunkCases ==
    { <<600, 4, maxTotalParts>>, <<49999, 1, maxTotalParts>>, <<50000, 1, maxTotalParts>>,
      <<4999900, 100, maxTotalParts>>, <<5000000, 100, maxTotalParts>>,
      <<3199936, 64, maxTotalParts>>, <<3200000, 64, maxTotalParts>>,
      <<5000000, 50, maxTotalParts>>, <<5000000, 13, maxTotalParts>>,
      <<600, 4, ScenarioParts>>, <<10000, 100, ScenarioParts>>, <<6400, 64, ScenarioParts>>,
      <<3, 1, FewParts>>, <<4, 1, FewParts>>, <<13, 1, FewParts>>, <<3, 2, FewParts>>,
      <<300, 100, FewParts>>, <<400, 100, FewParts>>, <<200, 64, FewParts>> }

InitChunk ==
    /\ \E c \in ChunkCases :
         /\ opt = [ChunkSize |-> c[2], UploadCutoff |-> 1]
         /\ partLimit = c[3]
         /\ up = [p \in Procs |-> IF p = 1 THEN [UpIdle EXCEPT !.size = c[1]] ELSE UpIdle]
    /\ transfers = 1
    /\ svc = [container |-> "present", blobs |-> {}, files |-> {}, dirs |-> {}]
    /\ InitFs
    /\ op = [p \in Procs |-> IF p = 1 THEN "Update" ELSE "none"]

NextChunk ==
    \E p \in Procs :
        \/ CallUpdate(p)
        \/ MkdirLock(p)
        \/ MkdirCreate(p)
        \/ UpdateChoose(p)
        \/ UpdateAfter(p)
        \/ UpdateReadMeta(p)
        \/ UploadStart(p)
        \/ UploadLoop(p)
        \/ UploadRead(p)
        \/ UploadReadCheck(p)
        \/ UploadSpawn(p)
        \/ UploadWait(p)
        \/ UploadFinal(p)
        \/ UploadCommit(p)
        \/ \E i \in 1..MaxRunParts :
              \/ PartStage(p, i)
              \/ PartRetry(p, i)
              \/ PartAssign(p, i)
              \/ PartCheck(p, i)
              \/ PartReport(p, i)

SpecChunk == InitChunk /\ [][NextChunk]_vars

\* ------------------------------------------------------------------------
\* Paths.  A path is the sequence of its elements; the root is << >>.
\* ------------------------------------------------------------------------
\* path.Base and path.Dir of a path that is not the root
Base(d) == <<d[Len(d)]>>
Dir(d) == SubSeq(d, 1, Len(d) - 1)
\* x lies below the directory pre
Under(x, pre) == Len(x) > Len(pre) /\ SubSeq(x, 1, Len(pre)) = pre
\* the entries of one directory level below pre, or all of them
Level(names, pre) == {SubSeq(x, 1, Len(pre) + 1) : x \in {y \in names : Under(y, pre)}}
Below(names, pre) == {y \in names : Under(y, pre)}

DirArgs == {<< >>, <<"a">>}
NameArgs == {<<"a">>, <<"b">>, <<"a", "b">>}

\* ------------------------------------------------------------------------
\* Calls on one Fs: Mkdir, List, Rmdir, Purge
\* ------------------------------------------------------------------------
FsOps == IF opt.backend = "azureblob" THEN {"Mkdir", "List", "Rmdir", "Purge"}
         ELSE {"List", "Rmdir"}

\* the history of a new call; what the Fs has seen of the container stays
NewCall(h) == [HistIdle EXCEPT !.sawOK = h.sawOK, !.gone = h.gone, !.calls = h.calls + 1]

\* caller p starts an operation on the Fs
CallFs(p) ==
    /\ pc[p] \in {"idle", "done"}
    /\ hist[p].calls < MaxCalls
    /\ \E o \in FsOps, d \in DirArgs :
         /\ o \in {"Mkdir", "Purge"} => d = << >>
         /\ op' = [op EXCEPT ![p] = o]
         /\ up' = [up EXCEPT ![p] = [UpIdle EXCEPT !.arg = d, !.root = opt.root]]
         /\ pc' = [pc EXCEPT ![p] =
                CASE o = "Mkdir" -> "mkdir"
                  [] o = "Purge" -> "purge"
                  [] OTHER -> IF opt.backend = "azureblob" THEN "list" ELSE "wd_list"]
    /\ ret' = [ret EXCEPT ![p] = Nil]
    /\ hist' = [hist EXCEPT ![p] = NewCall(@)]
    /\ UNCHANGED <<cfgVars, uploadToken, fsVars, svc, gor>>

\* variant: isEmpty that never says ErrorDirectoryNotEmpty
isEmptyAlways(entries) == Nil
\* azureblob isEmpty: the error for a listing that called fn or did not
isEmpty(entries) == IF entries # {} THEN Err("ErrorDirectoryNotEmpty") ELSE Nil

\* azureblob list: the prefix it asks for.  isEmpty lists "" whatever dir is
ListPrefix(p) == IF op[p] = "Rmdir" THEN opt.root ELSE opt.root \o up[p].arg
\* the directory the call is about
TargetDir(p) == opt.root \o up[p].arg
AzHasEntry(p) == Below(svc.files, TargetDir(p)) # {}
AzMissing(p) == svc.container # "present" \/ (TargetDir(p) # << >> /\ ~AzHasEntry(p))

\* azureblob list: containerDeleted is read under containerOKMu
AzListDeleted(p) ==
    /\ pc[p] = "list"
    /\ containerOKMu = 0
    /\ IF containerDeleted
       THEN /\ Return(p, Err("ErrorDirNotFound"))
            /\ hist' = [hist EXCEPT ![p].hadEntry = AzHasEntry(p), ![p].missing = AzMissing(p)]
            /\ UNCHANGED up
       ELSE /\ pc' = [pc EXCEPT ![p] = "list_req"]
            /\ up' = [up EXCEPT ![p].tries = 0]
            /\ UNCHANGED <<ret, hist>>
    /\ UNCHANGED <<cfgVars, uploadToken, fsVars, svc, op, gor>>

\* azureblob list: one ListBlobsHierarchySegment request in pacer.Call, and
\* what list, listDir, isEmpty and Rmdir do with the final answer
AzListRequest(p) ==
    /\ pc[p] = "list_req"
    /\ \E a \in (IF svc.container = "present" THEN {"ok"} ELSE {"ContainerNotFound"})
                    \cup {"http503", "http403"} :
         LET n == up[p].tries + 1
             items == IF op[p] = "Rmdir"
                      THEN Below(svc.files, ListPrefix(p)) \cup {<<"blob">> : q \in svc.blobs}
                      ELSE Level(svc.files, ListPrefix(p))
             e == IF a = "ok" THEN Nil
                  ELSE IF a = "ContainerNotFound" THEN Err("ErrorDirNotFound") ELSE Err(a)
         IN IF ~PacerStops(shouldRetry(Err(a)), n)
            THEN /\ up' = [up EXCEPT ![p].tries = n]
                 /\ hist' = [hist EXCEPT ![p].requests = @ + 1]
                 /\ UNCHANGED <<pc, ret>>
            ELSE /\ hist' = [hist EXCEPT ![p].requests = @ + 1,
                                         ![p].hadEntry = AzHasEntry(p),
                                         ![p].missing = AzMissing(p)]
                 /\ up' = [up EXCEPT ![p].ans = a, ![p].tries = 0,
                                     ![p].entries = IF a = "ok" /\ op[p] = "List"
                                                    THEN items ELSE {}]
                 /\ IF e # Nil
                    THEN Return(p, e)
                    ELSE IF op[p] = "List"
                    THEN pc' = [pc EXCEPT ![p] = "list_mark"] /\ UNCHANGED ret
                    ELSE IF isEmpty(items) # Nil
                    THEN Return(p, isEmpty(items))
                    ELSE IF opt.root # << >> \/ up[p].arg # << >>
                    THEN Return(p, Nil)
                    ELSE pc' = [pc EXCEPT ![p] = "delc_lock"] /\ UNCHANGED ret
    /\ UNCHANGED <<cfgVars, uploadToken, fsVars, svc, op, gor>>

\* variant: markContainerOK that leaves containerDeleted as it is
markContainerOKOnly(p) ==
    /\ pc[p] = "list_mark"
    /\ containerOKMu = 0
    /\ containerOK' = TRUE
    /\ Return(p, Nil)
    /\ hist' = [hist EXCEPT ![p].sawOK = TRUE]
    /\ UNCHANGED <<cfgVars, uploadToken, containerDeleted, containerOKMu, svc, op, up, gor>>

\* listDir: the container must be present if the listing succeeded
markContainerOK(p) ==
    /\ pc[p] = "list_mark"
    /\ containerOKMu = 0
    /\ containerOK' = TRUE
    /\ containerDeleted' = FALSE
    /\ Return(p, Nil)
    /\ hist' = [hist EXCEPT ![p].sawOK = TRUE]
    /\ UNCHANGED <<cfgVars, uploadToken, containerOKMu, svc, op, up, gor>>

\* variant: Purge that deletes the container from any root
PurgeAnyRoot(p) ==
    /\ pc[p] = "purge"
    /\ pc' = [pc EXCEPT ![p] = "delc_lock"]
    /\ UNCHANGED <<cfgVars, uploadToken, fsVars, svc, op, ret, up, gor, hist>>

\* azureblob Purge: only an Fs at the root of the container can
Purge(p) ==
    /\ pc[p] = "purge"
    /\ IF opt.root # << >>
       THEN Return(p, Err("ErrorCantPurge"))
       ELSE pc' = [pc EXCEPT ![p] = "delc_lock"] /\ UNCHANGED ret
    /\ UNCHANGED <<cfgVars, uploadToken, fsVars, svc, op, up, gor, hist>>

\* deleteContainer: Lock
DeleteLock(p) ==
    /\ pc[p] = "delc_lock"
    /\ containerOKMu = 0
    /\ containerOKMu' = p
    /\ pc' = [pc EXCEPT ![p] = "delc_req"]
    /\ up' = [up EXCEPT ![p].tries = 0]
    /\ UNCHANGED <<cfgVars, uploadToken, containerOK, containerDeleted, svc, op, ret, gor, hist>>

\* deleteContainer: GetProperties, then Delete, in one pacer attempt; after
\* the last attempt the flags are set and the lock is given back
deleteContainer(p) ==
    /\ pc[p] = "delc_req"
    /\ \E a \in (IF svc.container = "present" THEN {"ok", "delete503", "delete403"}
                 ELSE {"ContainerNotFound"}) \cup {"http503", "http403"} :
         LET n == up[p].tries + 1
             asked == a \in {"ok", "delete503", "delete403"}
             e == CASE a = "ok" -> Nil
                    [] a = "ContainerNotFound" -> Err("ErrorDirNotFound")
                    [] a \in {"delete503", "http503"} -> Err("http503")
                    [] OTHER -> Err("http403")
             retry == a # "ContainerNotFound" /\ shouldRetry(e)
         IN /\ svc' = IF a = "ok"
                      THEN [svc EXCEPT !.container = "deleting", !.files = {}, !.blobs = {}]
                      ELSE svc
            /\ IF ~PacerStops(retry, n)
               THEN /\ up' = [up EXCEPT ![p].tries = n]
                    /\ hist' = [hist EXCEPT ![p].deletes = @ + (IF asked THEN 1 ELSE 0)]
                    /\ UNCHANGED <<containerOK, containerDeleted, containerOKMu, pc, ret>>
               ELSE /\ containerOK' = (IF e = Nil THEN FALSE ELSE containerOK)
                    /\ containerDeleted' = (IF e = Nil THEN TRUE ELSE containerDeleted)
                    /\ containerOKMu' = 0
                    /\ Return(p, Wrap(e, "failed to delete container"))
                    /\ up' = [up EXCEPT ![p].tries = 0]
                    /\ hist' = [q \in Procs |->
                                 [hist[q] EXCEPT
                                    !.sawOK = IF e = Nil THEN FALSE ELSE @,
                                    !.gone = IF e = Nil THEN TRUE ELSE @,
                                    !.deletes = @ + (IF q = p /\ asked THEN 1 ELSE 0)]]
    /\ UNCHANGED <<cfgVars, uploadToken, op, gor>>

\* the service finishes deleting a container
ContainerGone ==
    /\ svc.container = "deleting"
    /\ svc' = [svc EXCEPT !.container = "absent"]
    /\ UNCHANGED <<cfgVars, uploadToken, fsVars, pc, op, ret, up, gor, hist>>

\* webdav: the zero depth retry of a PROPFIND answered with 404
retryWithZeroDepth == opt.vendor = "sharepoint"
ZeroDepthRetry(a, depth) == a = "http404" /\ retryWithZeroDepth /\ depth # "0"

WdNames == svc.files \cup svc.dirs
WdHasEntry(p) == TargetDir(p) \in svc.dirs /\ Below(WdNames, TargetDir(p)) # {}

\* webdav listAll: one PROPFIND on the directory in pacer.Call, and what
\* listAll, List, dirNotEmpty and purgeCheck do with the final answer
listAll(p) ==
    /\ pc[p] = "wd_list"
    /\ \E a \in (IF TargetDir(p) \in svc.dirs THEN {"ok"} ELSE {"http404"})
                    \cup {"http503", "http403"} :
         LET n == up[p].tries + 1
             items == IF up[p].depth = "0" THEN {} ELSE Level(WdNames, TargetDir(p))
         IN IF ~PacerStops(shouldRetry(Err(a)), n)
            THEN /\ up' = [up EXCEPT ![p].tries = n]
                 /\ hist' = [hist EXCEPT ![p].requests = @ + 1]
                 /\ UNCHANGED <<pc, ret>>
            ELSE IF ZeroDepthRetry(a, up[p].depth)
            THEN /\ up' = [up EXCEPT ![p].tries = 0, ![p].depth = "0"]
                 /\ hist' = [hist EXCEPT ![p].requests = @ + 1, ![p].lookups = @ + 1]
                 /\ UNCHANGED <<pc, ret>>
            ELSE /\ hist' = [hist EXCEPT ![p].requests = @ + 1, ![p].lookups = @ + 1,
                                         ![p].hadEntry = WdHasEntry(p),
                                         ![p].missing = TargetDir(p) \notin svc.dirs]
                 /\ up' = [up EXCEPT ![p].ans = a, ![p].tries = 0, ![p].depth = "1",
                                     ![p].entries = IF a = "ok" /\ op[p] = "List"
                                                    THEN items ELSE {}]
                 /\ IF a = "http404"
                    THEN Return(p, Err("ErrorDirNotFound"))
                    ELSE IF a # "ok"
                    THEN Return(p, Wrap(Err(a), "couldn't list files"))
                    ELSE IF op[p] = "List"
                    THEN Return(p, Nil)
                    ELSE IF items # {}
                    THEN Return(p, Err("ErrorDirectoryNotEmpty"))
                    ELSE pc' = [pc EXCEPT ![p] = "wd_delete"] /\ UNCHANGED ret
    /\ UNCHANGED <<cfgVars, uploadToken, fsVars, svc, op, gor>>

\* webdav purgeCheck: one DELETE of the directory in pacer.Call
purgeCheck(p) ==
    /\ pc[p] = "wd_delete"
    /\ \E a \in (IF TargetDir(p) \in svc.dirs THEN {"ok"} ELSE {"http404"})
                    \cup {"http503", "http403"} :
         LET n == up[p].tries + 1
             d == TargetDir(p)
         IN /\ svc' = IF a = "ok"
                      THEN [svc EXCEPT !.dirs = {x \in @ : x # d /\ ~Under(x, d)},
                                       !.files = {x \in @ : ~Under(x, d)}]
                      ELSE svc
            /\ hist' = [hist EXCEPT ![p].deletes = @ + 1]
            /\ IF ~PacerStops(shouldRetry(Err(a)), n)
               THEN up' = [up EXCEPT ![p].tries = n] /\ UNCHANGED <<pc, ret>>
               ELSE /\ up' = [up EXCEPT ![p].tries = 0]
                    /\ Return(p, IF a = "ok" THEN Nil ELSE Wrap(Err(a), "rmdir failed"))
    /\ UNCHANGED <<cfgVars, uploadToken, fsVars, op, gor>>

\* the remotes the calls start from
Stores ==
    { [container |-> "absent", blobs |-> {}, files |-> {}, dirs |-> {}],
      [container |-> "present", blobs |-> {}, files |-> {}, dirs |-> {}],
      [container |-> "present", blobs |-> {}, files |-> {<<"b">>}, dirs |-> {}],
      [container |-> "present", blobs |-> {}, files |-> {<<"a", "b">>}, dirs |-> {}] }
Trees ==
    { [container |-> "absent", blobs |-> {}, files |-> {}, dirs |-> {}],
      [container |-> "absent", blobs |-> {}, files |-> {}, dirs |-> {<< >>}],
      [container |-> "absent", blobs |-> {}, files |-> {<<"b">>}, dirs |-> {<< >>}],
      [container |-> "absent", blobs |-> {}, files |-> {}, dirs |-> {<< >>, <<"a">>}],
      [container |-> "absent", blobs |-> {}, files |-> {<<"a", "b">>},
       dirs |-> {<< >>, <<"a">>}] }

\* an Fs of either backend at a root, and the callers that use it: two on
\* azureblob, one on webdav
InitCalls ==
    /\ \E b \in {"azureblob", "webdav"}, v \in {"other", "sharepoint"}, r \in DirArgs :
         /\ b = "azureblob" => v = "other"
         /\ opt = [ChunkSize |-> 1, UploadCutoff |-> 1, backend |-> b, vendor |-> v, root |-> r]
         /\ svc \in (IF b = "azureblob" THEN Stores ELSE Trees)
         /\ hist = [p \in Procs |->
                      [HistIdle EXCEPT !.calls = IF b = "azureblob" \/ p = 1 THEN 0 ELSE MaxCalls]]
    /\ partLimit = maxTotalParts
    /\ transfers = 1
    /\ uploadToken = transfers
    /\ containerOK = FALSE
    /\ containerDeleted = FALSE
    /\ containerOKMu = 0
    /\ pc = [p \in Procs |-> "idle"]
    /\ op = [p \in Procs |-> "none"]
    /\ ret = [p \in Procs |-> Nil]
    /\ up = [p \in Procs |-> UpIdle]
    /\ gor = [p \in Procs |-> << >>]
    /\ InitSide

NextFs ==
    \/ ContainerGone
    \/ \E p \in Procs :
        \/ CallFs(p)
        \/ MkdirMemo(p)
        \/ MkdirLock(p)
        \/ MkdirCreate(p)
        \/ AzListDeleted(p)
        \/ AzListRequest(p)
        \/ markContainerOK(p)
        \/ Purge(p)
        \/ DeleteLock(p)
        \/ deleteContainer(p)
        \/ listAll(p)
        \/ purgeCheck(p)

SpecFs == InitCalls /\ [][NextFs]_vars

\* ------------------------------------------------------------------------
\* Lookups: NewObject, and the probe NewFs makes for a root that is a file
\* ------------------------------------------------------------------------
\* the object the lookup asks for: remote below f.root, where the probe of
\* NewFs has remote = path.Base(root)
LookupPath(p) ==
    up[p].root \o (IF op[p] = "NewFs" THEN Base(up[p].arg) ELSE up[p].arg)

\* caller p starts NewObject(remote) on the Fs, or NewFs(root)
CallLookup(p) ==
    /\ pc[p] \in {"idle", "done"}
    /\ hist[p].calls < MaxCalls
    /\ \/ \E x \in NameArgs :
            /\ op' = [op EXCEPT ![p] = "NewObject"]
            /\ up' = [up EXCEPT ![p] = [UpIdle EXCEPT !.arg = x, !.root = opt.root]]
            /\ pc' = [pc EXCEPT ![p] = IF opt.backend = "azureblob" THEN "az_meta" ELSE "wd_meta"]
       \/ \E x \in NameArgs \cup {<< >>}, sl \in BOOLEAN :
            /\ op' = [op EXCEPT ![p] = "NewFs"]
            /\ up' = [up EXCEPT ![p] = [UpIdle EXCEPT !.arg = x, !.slash = sl, !.root = x]]
            /\ pc' = [pc EXCEPT ![p] = "newfs"]
    /\ ret' = [ret EXCEPT ![p] = Nil]
    /\ hist' = [hist EXCEPT ![p] = NewCall(@)]
    /\ UNCHANGED <<cfgVars, uploadToken, fsVars, svc, gor>>

\* NewFs probes the root unless it is empty (webdav: or was given with a
\* trailing slash; azureblob parsePath trims the slashes)
Probes(d, slash) ==
    IF opt.backend = "azureblob" THEN d # << >> ELSE d # << >> /\ ~slash

\* NewFs up to the probe: f.root = path.Dir(root); f.NewObject(path.Base(root))
NewFsStart(p) ==
    /\ pc[p] = "newfs"
    /\ IF Probes(up[p].root, up[p].slash)
       THEN /\ up' = [up EXCEPT ![p].root = Dir(up[p].arg)]
            /\ pc' = [pc EXCEPT ![p] = IF opt.backend = "azureblob" THEN "az_meta" ELSE "wd_meta"]
            /\ UNCHANGED ret
       ELSE /\ up' = [up EXCEPT ![p].hasFs = TRUE]
            /\ Return(p, Nil)
    /\ UNCHANGED <<cfgVars, uploadToken, fsVars, svc, op, gor, hist>>

\* where the lookup returns to: NewObject gives the Object or the error,
\* webdav Update the error of its readMetaData, NewFs goes on with the error
\* of its probe
LookupReturn(p, a, e) ==
    /\ up' = [up EXCEPT ![p].ans = a, ![p].err = e, ![p].tries = 0, ![p].depth = "1",
                        ![p].hasObj = (e = Nil)]
    /\ IF op[p] \in {"NewObject", "Update"}
       THEN Return(p, e)
       ELSE pc' = [pc EXCEPT ![p] = "newfs_probed"] /\ UNCHANGED ret

\* azureblob readMetaData: what it returns for the final answer
azReadMetaData(a) ==
    IF a = "ok" THEN Nil
    ELSE IF a \in {"BlobNotFound", "ContainerNotFound", "http404"}
         THEN Err("ErrorObjectNotFound")
         ELSE Err(a)

\* azureblob readMetaData: one GetProperties request in pacer.Call
readMetaData(p) ==
    /\ pc[p] = "az_meta"
    /\ \E a \in (IF svc.container # "present" THEN {"ContainerNotFound"}
                 ELSE IF LookupPath(p) \in svc.files THEN {"ok"}
                 ELSE {"BlobNotFound", "http404"}) \cup {"http503", "http403"} :
         LET n == up[p].tries + 1
         IN IF ~PacerStops(shouldRetry(Err(a)), n)
            THEN /\ up' = [up EXCEPT ![p].tries = n]
                 /\ hist' = [hist EXCEPT ![p].requests = @ + 1]
                 /\ UNCHANGED <<pc, ret>>
            ELSE /\ hist' = [hist EXCEPT ![p].requests = @ + 1, ![p].lookups = @ + 1,
                                         ![p].missing = LookupPath(p) \notin svc.files]
                 /\ LookupReturn(p, a, azReadMetaData(a))
    /\ UNCHANGED <<cfgVars, uploadToken, fsVars, svc, op, gor>>

\* variant: a redirect is an error like any other
readMetaDataNoRedirect(a) ==
    CASE a = "file" -> Nil
      [] a = "collection" -> Err("ErrorNotAFile")
      [] a \in {"http404", "empty", "badstatus"} -> Err("ErrorObjectNotFound")
      [] OTHER -> Wrap(Err(a), "read metadata failed")

\* webdav readMetaDataForPath: what it returns for the final answer, when
\* it does not ask again with depth 0
readMetaDataForPath(a) ==
    CASE a = "file" -> Nil
      [] a = "collection" -> Err("ErrorNotAFile")
      [] a \in {"http404", "http301", "empty", "badstatus"} -> Err("ErrorObjectNotFound")
      [] OTHER -> Wrap(Err(a), "read metadata failed")

\* what a webdav server answers to a PROPFIND on x
PropfindAnswers(x, depth) ==
    IF x \in svc.files
    THEN (IF opt.vendor = "sharepoint" /\ depth # "0" THEN {"http404"} ELSE {"file"})
    ELSE IF x \in svc.dirs THEN {"collection"}
    ELSE {"http404", "http301", "empty", "badstatus"}

\* webdav readMetaDataForPath: one PROPFIND request in pacer.Call
WdPropfind(p) ==
    /\ pc[p] = "wd_meta"
    /\ \E a \in PropfindAnswers(LookupPath(p), up[p].depth) \cup {"http503", "http403"} :
         LET n == up[p].tries + 1
         IN IF ~PacerStops(shouldRetry(Err(a)), n)
            THEN /\ up' = [up EXCEPT ![p].tries = n]
                 /\ hist' = [hist EXCEPT ![p].requests = @ + 1]
                 /\ UNCHANGED <<pc, ret>>
            ELSE IF ZeroDepthRetry(a, up[p].depth)
            THEN /\ up' = [up EXCEPT ![p].tries = 0, ![p].depth = "0"]
                 /\ hist' = [hist EXCEPT ![p].requests = @ + 1, ![p].lookups = @ + 1]
                 /\ UNCHANGED <<pc, ret>>
            ELSE /\ hist' = [hist EXCEPT ![p].requests = @ + 1, ![p].lookups = @ + 1,
                                         ![p].missing = LookupPath(p) \notin WdNames]
                 /\ LookupReturn(p, a, readMetaDataForPath(a))
    /\ UNCHANGED <<cfgVars, uploadToken, fsVars, svc, op, gor>>

\* variant: webdav keeps the root only for ErrorObjectNotFound
KeepsRootStrict(e) == e = Err("ErrorObjectNotFound")

\* the probe errors after which NewFs returns the Fs at the root as given:
\* azureblob compares err itself, webdav its errors.Cause
KeepsRoot(e) ==
    IF opt.backend = "azureblob" THEN e = Err("ErrorObjectNotFound")
    ELSE e # Nil /\ e.cause \in {"ErrorObjectNotFound", "ErrorNotAFile"}

\* NewFs after the probe
NewFsProbed(p) ==
    /\ pc[p] = "newfs_probed"
    /\ LET e == up[p].err
       IN IF e = Nil
          THEN /\ up' = [up EXCEPT ![p].hasFs = TRUE]
               /\ Return(p, Err("ErrorIsFile"))
          ELSE IF KeepsRoot(e)
          THEN /\ up' = [up EXCEPT ![p].hasFs = TRUE, ![p].root = up[p].arg]
               /\ Return(p, Nil)
          ELSE /\ up' = [up EXCEPT ![p].hasFs = FALSE]
               /\ Return(p, e)
    /\ UNCHANGED <<cfgVars, uploadToken, fsVars, svc, op, gor, hist>>

LookupStores ==
    { [container |-> "absent", blobs |-> {}, files |-> {}, dirs |-> {}],
      [container |-> "present", blobs |-> {}, files |-> {<<"a">>}, dirs |-> {}],
      [container |-> "present", blobs |-> {}, files |-> {<<"a", "b">>}, dirs |-> {}] }
LookupTrees ==
    { [container |-> "absent", blobs |-> {}, files |-> {<<"a">>}, dirs |-> {<< >>}],
      [container |-> "absent", blobs |-> {}, files |-> {<<"a", "b">>},
       dirs |-> {<< >>, <<"a">>}] }

\* an Fs of either backend, or none yet, and one caller
InitLookup ==
    /\ \E b \in {"azureblob", "webdav"}, v \in {"other", "sharepoint"}, r \in DirArgs :
         /\ b = "azureblob" => v = "other"
         /\ opt = [ChunkSize |-> 1, UploadCutoff |-> 1, backend |-> b, vendor |-> v, root |-> r]
         /\ svc \in (IF b = "azureblob" THEN LookupStores ELSE LookupTrees)
    /\ hist = [p \in Procs |-> [HistIdle EXCEPT !.calls = IF p = 1 THEN 0 ELSE MaxCalls]]
    /\ partLimit = maxTotalParts
    /\ transfers = 1
    /\ uploadToken = transfers
    /\ containerOK = FALSE
    /\ containerDeleted = FALSE
    /\ containerOKMu = 0
    /\ pc = [p \in Procs |-> "idle"]
    /\ op = [p \in Procs |-> "none"]
    /\ ret = [p \in Procs |-> Nil]
    /\ up = [p \in Procs |-> UpIdle]
    /\ gor = [p \in Procs |-> << >>]
    /\ InitSide

NextLookup ==
    \E p \in Procs :
        \/ CallLookup(p)
        \/ NewFsStart(p)
        \/ readMetaData(p)
        \/ WdPropfind(p)
        \/ NewFsProbed(p)

SpecLookup == InitLookup /\ [][NextLookup]_vars

\* ------------------------------------------------------------------------
\* Making directories: Mkdir on both backends, and webdav Object.Update,
\* which makes the parents of the object before it sends the PUT
\* ------------------------------------------------------------------------
\* the native path of the call: f.dirPath(dir), o.filePath()
filePath(p) == up[p].root \o up[p].arg

\* what a webdav server answers to MKCOL on d
MkcolAnswers(d) ==
    IF d \in svc.dirs \cup svc.files THEN {"http405"}
    ELSE IF Dir(d) \notin svc.dirs THEN {"http409"}
    ELSE {"ok"}

\* answers that do not follow from what is stored
SoftAnswers == {"http503", "http403", "http423", "http406"}

\* variant: _mkdir for which "already exists" is an error
mkdirResultStrict(a) == IF a = "ok" THEN Nil ELSE Err(a)

\* _mkdir after pacer.Call: 405, 406 and 423 mean the directory is there
mkdirResult(a) == IF a \in {"ok", "http405", "http406", "http423"} THEN Nil ELSE Err(a)

\* variant: Update sends the PUT whatever mkParentDir returned
PutAllowedAlways(e) == TRUE

\* Update goes on to the PUT only when mkParentDir returned nil
PutAllowed(e) == e = Nil

\* a frame of mkdir: the dirPath, and whether its first _mkdir has been
\* answered with 409 (so that its parent is being made, or has been)
Frame(d) == [dir |-> d, again |-> FALSE]

\* mkdir has returned e to Mkdir or to Update; h is the history so far
MkdirDone(p, e, h) ==
    IF op[p] = "Mkdir"
    THEN /\ Return(p, e)
         /\ hist' = h
    ELSE IF op[p] \in {"Copy", "Move", "DirMove"}
    THEN /\ hist' = h
         /\ IF e = Nil
            THEN pc' = [pc EXCEPT ![p] = "wd_move"] /\ UNCHANGED ret
            ELSE Return(p, Wrap(e, IF op[p] = "DirMove" THEN "DirMove mkParentDir dst failed"
                                   ELSE "Copy mkParentDir failed"))
    ELSE IF PutAllowed(e)
    THEN /\ pc' = [pc EXCEPT ![p] = "wd_put"]
         /\ hist' = [h EXCEPT ![p].parentNil = (e = Nil), ![p].parentErr = (e # Nil)]
         /\ UNCHANGED ret
    ELSE /\ Return(p, Wrap(e, "Update mkParentDir failed"))
         /\ hist' = [h EXCEPT ![p].parentErr = TRUE]

\* caller p starts Mkdir(dir) on the Fs, or Update of the object at remote
CallDav(p) ==
    /\ pc[p] \in {"idle", "done"}
    /\ hist[p].calls < MaxCalls
    /\ \E o \in {"Mkdir", "Update"}, x \in {<< >>} \cup NameArgs :
         /\ o = "Update" => opt.backend = "webdav" /\ x # << >>
         /\ opt.backend = "azureblob" => x = << >>
         /\ op' = [op EXCEPT ![p] = o]
         /\ up' = [up EXCEPT ![p] =
                [UpIdle EXCEPT !.arg = x, !.root = opt.root,
                               !.stack = <<Frame(opt.root \o (IF o = "Mkdir" THEN x ELSE Dir(x)))>>]]
         /\ pc' = [pc EXCEPT ![p] = IF opt.backend = "azureblob" THEN "mkdir" ELSE "wd_mkdir"]
    /\ ret' = [ret EXCEPT ![p] = Nil]
    /\ hist' = [hist EXCEPT ![p] =
            [NewCall(@) EXCEPT !.before = svc,
                               !.prev = [op |-> op[p], arg |-> up[p].arg, ret |-> ret[p],
                                         failed |-> hist[p].failed,
                                         before |-> hist[p].before, after |-> svc]]]
    /\ UNCHANGED <<cfgVars, uploadToken, fsVars, svc, gor>>

\* variant: mkdir that makes the parents after every 409
TriesAgainAlways(a, frame) == a = "http409"
\* mkdir: a 409 for the first _mkdir of a directory sends it to mkParentDir;
\* the error of the second _mkdir is returned as it is
TriesAgain(a, frame) == a = "http409" /\ ~frame.again

\* the history after one MKCOL for d: the requests and, with the first
\* attempt of a pacer.Call, the calls of _mkdir for a path of that length
Asked(p, d) ==
    [hist EXCEPT ![p].requests = @ + 1,
                 ![p].mkcol[Len(d)] = @ + 1,
                 ![p].mkcalls[Len(d)] = @ + (IF up[p].tries = 0 THEN 1 ELSE 0)]

\* webdav mkdir: one MKCOL request of _mkdir in pacer.Call, and what _mkdir,
\* mkdir and mkParentDir do with the final answer
mkdir(p) ==
    /\ pc[p] = "wd_mkdir"
    /\ LET top == up[p].stack[Len(up[p].stack)]
           rest == SubSeq(up[p].stack, 1, Len(up[p].stack) - 1)
       IN IF top.dir = << >>
          THEN \* we assume the root is already created
               /\ MkdirDone(p, Nil, hist)
               /\ up' = [up EXCEPT ![p].stack = << >>]
               /\ UNCHANGED svc
          ELSE \E a \in MkcolAnswers(top.dir) \cup SoftAnswers :
                 LET n == up[p].tries + 1
                     e == mkdirResult(a)
                 IN /\ svc' = IF a = "ok" THEN [svc EXCEPT !.dirs = @ \cup {top.dir}] ELSE svc
                    /\ IF ~PacerStops(shouldRetry(Err(a)), n)
                       THEN /\ up' = [up EXCEPT ![p].tries = n]
                            /\ hist' = Asked(p, top.dir)
                            /\ UNCHANGED <<pc, ret>>
                       ELSE IF TriesAgain(a, top)
                       THEN \* the parent does not exist: mkParentDir, then try again
                            /\ up' = [up EXCEPT ![p].tries = 0, ![p].ans = a,
                                        ![p].stack =
                                            IF Dir(top.dir) = << >>
                                            THEN Append(rest, [top EXCEPT !.again = TRUE])
                                            ELSE Append(Append(rest, [top EXCEPT !.again = TRUE]),
                                                        Frame(Dir(top.dir)))]
                            /\ hist' = Asked(p, top.dir)
                            /\ UNCHANGED <<pc, ret>>
                       ELSE IF e = Nil /\ rest # << >>
                       THEN \* the parent is made: the mkdir that asked for it goes on
                            /\ up' = [up EXCEPT ![p].tries = 0, ![p].ans = a, ![p].stack = rest]
                            /\ hist' = [Asked(p, top.dir) EXCEPT
                                                    ![p].failed = @ \/ a \in SoftAnswers]
                            /\ UNCHANGED <<pc, ret>>
                       ELSE \* mkdir returns, and with an error so does every mkdir below
                            /\ up' = [up EXCEPT ![p].tries = 0, ![p].ans = a, ![p].stack = << >>]
                            /\ MkdirDone(p, e, [Asked(p, top.dir) EXCEPT
                                                             ![p].failed = @ \/ a \in SoftAnswers])
    /\ UNCHANGED <<cfgVars, uploadToken, fsVars, op, gor>>

\* what a webdav server answers to PUT on x
PutAnswers(x) ==
    IF x \in svc.dirs THEN {"http405"}
    ELSE IF Dir(x) \notin svc.dirs THEN {"http409"}
    ELSE {"ok"}

\* webdav Update: the PUT, in pacer.CallNoRetry
WdPut(p) ==
    /\ pc[p] = "wd_put"
    /\ \E a \in PutAnswers(filePath(p)) \cup {"http503", "http403"} :
         /\ svc' = IF a = "ok" THEN [svc EXCEPT !.files = @ \cup {filePath(p)}] ELSE svc
         /\ up' = [up EXCEPT ![p].ans = a, ![p].tries = 0,
                             ![p].err = IF a = "ok" THEN Nil ELSE Err(a)]
         /\ hist' = [hist EXCEPT ![p].puts = @ + 1,
                                 ![p].putErr = IF a = "ok" THEN Nil ELSE Err(a),
                                 ![p].failed = @ \/ a \in {"http503", "http403"}]
         /\ pc' = [pc EXCEPT ![p] = IF a = "ok" THEN "wd_meta" ELSE "wd_remove"]
    /\ UNCHANGED <<cfgVars, uploadToken, fsVars, op, ret, gor>>

\* variant: Update that returns the error of Remove when Remove fails
WdRemoveOwnError(p) ==
    /\ pc[p] = "wd_remove"
    /\ \E a \in (IF filePath(p) \in svc.files THEN {"ok"} ELSE {"http404"})
                    \cup {"http503", "http403"} :
         LET n == up[p].tries + 1
         IN /\ svc' = IF a = "ok" THEN [svc EXCEPT !.files = @ \ {filePath(p)}] ELSE svc
            /\ hist' = [hist EXCEPT ![p].deletes = @ + 1]
            /\ IF ~PacerStops(shouldRetry(Err(a)), n)
               THEN up' = [up EXCEPT ![p].tries = n] /\ UNCHANGED <<pc, ret>>
               ELSE up' = [up EXCEPT ![p].tries = 0]
                    /\ Return(p, IF a = "ok" THEN up[p].err ELSE Err(a))
    /\ UNCHANGED <<cfgVars, uploadToken, fsVars, op, gor>>

\* webdav Update after a failed PUT: _ = o.Remove(ctx); return err
WdRemove(p) ==
    /\ pc[p] = "wd_remove"
    /\ \E a \in (IF filePath(p) \in svc.files THEN {"ok"} ELSE {"http404"})
                    \cup {"http503", "http403"} :
         LET n == up[p].tries + 1
         IN /\ svc' = IF a = "ok" THEN [svc EXCEPT !.files = @ \ {filePath(p)}] ELSE svc
            /\ hist' = [hist EXCEPT ![p].deletes = @ + 1]
            /\ IF ~PacerStops(shouldRetry(Err(a)), n)
               THEN up' = [up EXCEPT ![p].tries = n] /\ UNCHANGED <<pc, ret>>
               ELSE up' = [up EXCEPT ![p].tries = 0] /\ Return(p, up[p].err)
    /\ UNCHANGED <<cfgVars, uploadToken, fsVars, op, gor>>

\* the remotes the calls start from: the root of a webdav server is there
DavTrees ==
    { [container |-> "absent", blobs |-> {}, files |-> {}, dirs |-> {<< >>}],
      [container |-> "absent", blobs |-> {}, files |-> {<<"a">>}, dirs |-> {<< >>}],
      [container |-> "absent", blobs |-> {}, files |-> {<<"a", "b">>},
       dirs |-> {<< >>, <<"a">>}] }
DavStores ==
    { [container |-> "absent", blobs |-> {}, files |-> {}, dirs |-> {}],
      [container |-> "present", blobs |-> {}, files |-> {}, dirs |-> {}] }

\* an Fs of either backend at a root, and one caller
InitDav ==
    /\ \E b \in {"azureblob", "webdav"}, r \in DirArgs :
         /\ b = "azureblob" => r = << >>
         /\ opt = [ChunkSize |-> 1, UploadCutoff |-> 1, backend |-> b, vendor |-> "other", root |-> r]
         /\ svc \in (IF b = "azureblob" THEN DavStores ELSE DavTrees)
    /\ hist = [p \in Procs |-> [HistIdle EXCEPT !.calls = IF p = 1 THEN 0 ELSE MaxCalls]]
    /\ partLimit = maxTotalParts
    /\ transfers = 1
    /\ uploadToken = transfers
    /\ containerOK = FALSE
    /\ containerDeleted = FALSE
    /\ containerOKMu = 0
    /\ pc = [p \in Procs |-> "idle"]
    /\ op = [p \in Procs |-> "none"]
    /\ ret = [p \in Procs |-> Nil]
    /\ up = [p \in Procs |-> UpIdle]
    /\ gor = [p \in Procs |-> << >>]
    /\ InitSide

NextDav ==
    \E p \in Procs :
        \/ CallDav(p)
        \/ MkdirMemo(p)
        \/ MkdirLock(p)
        \/ MkdirCreate(p)
        \/ mkdir(p)
        \/ WdPut(p)
        \/ WdRemove(p)
        \/ WdPropfind(p)

SpecDav == InitDav /\ [][NextDav]_vars

\* the same calls when every request is answered and the caller goes on
SpecDavFair == InitDav /\ [][NextDav]_vars /\ \A p \in Procs : WF_vars(mkdir(p))

\* ------------------------------------------------------------------------
\* Server side Copy, Move and DirMove
\* ------------------------------------------------------------------------
ServerSideOps == IF opt.backend = "azureblob" THEN {"Copy"} ELSE {"Copy", "Move", "DirMove"}

\* the error for a source of another backend
CantError(o) ==
    CASE o = "Copy" -> Err("ErrorCantCopy")
      [] o = "Move" -> Err("ErrorCantMove")
      [] OTHER -> Err("ErrorCantDirMove")

\* caller p starts Copy(src, remote), Move(src, remote) or
\* DirMove(src, srcRemote, dstRemote); same says whether src is of this backend.
\* azureblob Copy begins with f.Mkdir("")
CallServerSide(p) ==
    /\ pc[p] \in {"idle", "done"}
    /\ hist[p].calls < MaxCalls
    /\ \E o \in ServerSideOps, s \in NameArgs, d \in NameArgs, same \in BOOLEAN :
         /\ s # d
         /\ op' = [op EXCEPT ![p] = o]
         /\ up' = [up EXCEPT ![p] =
                [UpIdle EXCEPT !.arg = d, !.src = s, !.root = opt.root, !.sameType = same,
                               !.stack = <<Frame(Dir(opt.root \o d))>>]]
         /\ pc' = [pc EXCEPT ![p] = IF opt.backend = "azureblob" THEN "mkdir" ELSE "wd_type"]
    /\ ret' = [ret EXCEPT ![p] = Nil]
    /\ hist' = [hist EXCEPT ![p] = [NewCall(@) EXCEPT !.before = svc]]
    /\ UNCHANGED <<cfgVars, uploadToken, fsVars, svc, gor>>

\* src.(*Object), src.(*Fs)
SameType(p) == up[p].sameType

\* azureblob Copy after Mkdir: the type of src, then StartCopyFromURL in
\* pacer.Call
AzCopy(p) ==
    /\ pc[p] = "copy_check"
    /\ IF ~SameType(p)
       THEN /\ Return(p, Err("ErrorCantCopy"))
            /\ UNCHANGED <<svc, up, hist>>
       ELSE \E a \in (IF svc.container # "present" THEN {"ContainerNotFound"}
                      ELSE IF up[p].root \o up[p].src \in svc.files THEN {"ok", "pending"}
                      ELSE {"http404"}) \cup {"http503", "http403"} :
              LET n == up[p].tries + 1
              IN /\ hist' = [hist EXCEPT ![p].requests = @ + 1]
                 /\ svc' = IF a \in {"ok", "pending"}
                           THEN [svc EXCEPT !.files = @ \cup {filePath(p)}] ELSE svc
                 /\ IF ~PacerStops(shouldRetry(Err(a)), n)
                    THEN up' = [up EXCEPT ![p].tries = n] /\ UNCHANGED <<pc, ret>>
                    ELSE /\ up' = [up EXCEPT ![p].tries = 0, ![p].ans = a]
                         /\ IF a \in {"ok", "pending"}
                            THEN /\ pc' = [pc EXCEPT ![p] = IF a = "ok" THEN "copy_new"
                                                            ELSE "copy_wait"]
                                 /\ UNCHANGED ret
                            ELSE Return(p, Err(a))
    /\ UNCHANGED <<cfgVars, uploadToken, fsVars, op, gor>>

\* azureblob Copy: while the copy is pending, one GetProperties of the
\* destination a second later; its error ends Copy, its copy status ends the
\* loop unless it is pending.  The service leaves the destination in place
\* when the copy fails or is aborted.
AzCopyWait(p) ==
    /\ pc[p] = "copy_wait"
    /\ \E a \in {"success", "failed", "aborted", "http403"}
                    \cup (IF up[p].tries + 1 < MaxPolls THEN {"pending"} ELSE {}) :
         /\ hist' = [hist EXCEPT ![p].lookups = @ + 1]
         /\ up' = [up EXCEPT ![p].ans = a,
                             ![p].tries = IF a = "pending" THEN @ + 1 ELSE 0]
         /\ CASE a = "pending" -> UNCHANGED <<pc, ret>>
              [] a = "http403" -> Return(p, Err(a))
              [] OTHER -> pc' = [pc EXCEPT ![p] = "copy_new"] /\ UNCHANGED ret
    /\ UNCHANGED <<cfgVars, uploadToken, fsVars, svc, op, gor>>

\* azureblob Copy: return f.NewObject(remote)
AzCopyNewObject(p) ==
    /\ pc[p] = "copy_new"
    /\ \E a \in (IF svc.container = "present" /\ filePath(p) \in svc.files THEN {"ok"}
                 ELSE {"http404"}) \cup {"http403"} :
         Return(p, IF a = "ok" THEN Nil
                   ELSE IF a = "http404" THEN Err("ErrorObjectNotFound") ELSE Err(a))
    /\ UNCHANGED <<cfgVars, uploadToken, fsVars, svc, op, up, gor, hist>>

\* webdav copyOrMove and DirMove: the type of src; DirMove then looks whether
\* the destination exists, the others make the parents of the destination
copyOrMove(p) ==
    /\ pc[p] = "wd_type"
    /\ IF ~SameType(p)
       THEN Return(p, CantError(op[p]))
       ELSE pc' = [pc EXCEPT ![p] = IF op[p] = "DirMove" THEN "wd_exists" ELSE "wd_mkdir"]
            /\ UNCHANGED ret
    /\ UNCHANGED <<cfgVars, uploadToken, fsVars, svc, op, up, gor, hist>>

\* webdav DirMove: dirNotEmpty(dstRemote), one PROPFIND in pacer.Call
DirMoveExists(p) ==
    /\ pc[p] = "wd_exists"
    /\ \E a \in (IF filePath(p) \in svc.dirs THEN {"ok"} ELSE {"http404"})
                    \cup {"http503", "http403"} :
         LET n == up[p].tries + 1
         IN /\ hist' = [hist EXCEPT ![p].requests = @ + 1]
            /\ IF ~PacerStops(shouldRetry(Err(a)), n)
               THEN up' = [up EXCEPT ![p].tries = n] /\ UNCHANGED <<pc, ret>>
               ELSE /\ up' = [up EXCEPT ![p].tries = 0]
                    /\ IF a = "ok" THEN Return(p, Err("ErrorDirExists"))
                       ELSE IF a = "http404"
                       THEN pc' = [pc EXCEPT ![p] = "wd_mkdir"] /\ UNCHANGED ret
                       ELSE Return(p, Wrap(Wrap(Err(a), "couldn't list files"),
                                           "DirMove dirExists dst failed"))
    /\ UNCHANGED <<cfgVars, uploadToken, fsVars, svc, op, gor>>

\* what a webdav server answers to COPY or MOVE of s to d with Overwrite: F
MoveAnswers(s, d, isDir) ==
    IF (isDir /\ s \notin svc.dirs) \/ (~isDir /\ s \notin svc.files) THEN {"http404"}
    ELSE IF Dir(d) \notin svc.dirs THEN {"http409"}
    ELSE IF d \in svc.dirs \cup svc.files THEN {"http412"}
    ELSE {"ok"}

\* the names below s, moved or copied below d
Renamed(names, s, d) ==
    {d \o SubSeq(x, Len(s) + 1, Len(x)) : x \in {y \in names : y = s \/ Under(y, s)}}

\* webdav copyOrMove and DirMove: the COPY or MOVE request in pacer.Call
WdCopyMove(p) ==
    /\ pc[p] = "wd_move"
    /\ LET s == up[p].root \o up[p].src
           d == filePath(p)
           isDir == op[p] = "DirMove"
       IN \E a \in MoveAnswers(s, d, isDir) \cup {"http503", "http403"} :
            LET n == up[p].tries + 1
                gone(names) == IF op[p] = "Copy" THEN names
                               ELSE {x \in names : x # s /\ ~Under(x, s)}
            IN /\ hist' = [hist EXCEPT ![p].requests = @ + 1]
               /\ svc' = IF a = "ok"
                         THEN [svc EXCEPT !.files = gone(@) \cup Renamed(svc.files, s, d),
                                          !.dirs = gone(@) \cup Renamed(svc.dirs, s, d)]
                         ELSE svc
               /\ IF ~PacerStops(shouldRetry(Err(a)), n)
                  THEN up' = [up EXCEPT ![p].tries = n] /\ UNCHANGED <<pc, ret>>
                  ELSE /\ up' = [up EXCEPT ![p].tries = 0, ![p].ans = a]
                       /\ IF a # "ok"
                          THEN Return(p, Wrap(Err(a), IF isDir THEN "DirMove MOVE call failed"
                                                      ELSE "Copy call failed"))
                          ELSE IF isDir THEN Return(p, Nil)
                          ELSE pc' = [pc EXCEPT ![p] = "wd_new"] /\ UNCHANGED ret
    /\ UNCHANGED <<cfgVars, uploadToken, fsVars, op, gor>>

\* webdav copyOrMove: f.NewObject(ctx, remote)
WdCopyNewObject(p) ==
    /\ pc[p] = "wd_new"
    /\ \E a \in (IF filePath(p) \in svc.files THEN {"ok"} ELSE {"http404"}) \cup {"http403"} :
         Return(p, IF a = "ok" THEN Nil
                   ELSE Wrap(IF a = "http404" THEN Err("ErrorObjectNotFound") ELSE Err(a),
                             "Copy NewObject failed"))
    /\ UNCHANGED <<cfgVars, uploadToken, fsVars, svc, op, up, gor, hist>>

\* the remotes the calls start from
CopyTrees ==
    { [container |-> "absent", blobs |-> {}, files |-> {<<"a">>}, dirs |-> {<< >>}],
      [container |-> "absent", blobs |-> {}, files |-> {<<"a", "b">>},
       dirs |-> {<< >>, <<"a">>}] }
CopyStores ==
    { [container |-> "absent", blobs |-> {}, files |-> {}, dirs |-> {}],
      [container |-> "present", blobs |-> {}, files |-> {<<"a">>}, dirs |-> {}] }

\* an Fs of either backend at the root of the remote, and one caller
InitCopy ==
    /\ \E b \in {"azureblob", "webdav"} :
         /\ opt = [ChunkSize |-> 1, UploadCutoff |-> 1, backend |-> b, vendor |-> "other",
                   root |-> << >>]
         /\ svc \in (IF b = "azureblob" THEN CopyStores ELSE CopyTrees)
    /\ hist = [p \in Procs |-> [HistIdle EXCEPT !.calls = IF p = 1 THEN 0 ELSE MaxCalls]]
    /\ partLimit = maxTotalParts
    /\ transfers = 1
    /\ uploadToken = transfers
    /\ containerOK = FALSE
    /\ containerDeleted = FALSE
    /\ containerOKMu = 0
    /\ pc = [p \in Procs |-> "idle"]
    /\ op = [p \in Procs |-> "none"]
    /\ ret = [p \in Procs |-> Nil]
    /\ up = [p \in Procs |-> UpIdle]
    /\ gor = [p \in Procs |-> << >>]
    /\ InitSide

NextCopy ==
    \E p \in Procs :
        \/ CallServerSide(p)
        \/ MkdirMemo(p)
        \/ MkdirLock(p)
        \/ MkdirCreate(p)
        \/ AzCopy(p)
        \/ AzCopyWait(p)
        \/ AzCopyNewObject(p)
        \/ copyOrMove(p)
        \/ DirMoveExists(p)
        \/ mkdir(p)
        \/ WdCopyMove(p)
        \/ WdCopyNewObject(p)

SpecCopy == InitCopy /\ [][NextCopy]_vars

\* ------------------------------------------------------------------------
\* azureblob Rmdir of the container beside an Update on the same Fs
\* ------------------------------------------------------------------------
\* caller p starts Rmdir("") on the Fs at the root of the container
CallRmdir(p) ==
    /\ pc[p] = "idle"
    /\ op[p] = "none"
    /\ op' = [op EXCEPT ![p] = "Rmdir"]
    /\ up' = [up EXCEPT ![p] = [UpIdle EXCEPT !.arg = << >>, !.root = opt.root]]
    /\ pc' = [pc EXCEPT ![p] = "list"]
    /\ ret' = [ret EXCEPT ![p] = Nil]
    /\ hist' = [hist EXCEPT ![p] = NewCall(@)]
    /\ UNCHANGED <<cfgVars, uploadToken, fsVars, svc, gor>>

\* an Fs at the root of an existing, empty container, which it has seen or
\* not; caller 1 is to remove the container, caller 2 to update an object
InitRace ==
    /\ opt = [ChunkSize |-> 1, UploadCutoff |-> 2, backend |-> "azureblob", vendor |-> "other",
              root |-> << >>]
    /\ partLimit = maxTotalParts
    /\ transfers = 1
    /\ svc = [container |-> "present", blobs |-> {}, files |-> {}, dirs |-> {}]
    /\ uploadToken = transfers
    /\ containerOK \in BOOLEAN
    /\ containerDeleted = FALSE
    /\ containerOKMu = 0
    /\ pc = [p \in Procs |-> "idle"]
    /\ ret = [p \in Procs |-> Nil]
    /\ gor = [p \in Procs |-> << >>]
    /\ hist = [p \in Procs |-> HistIdle]
    /\ op = [p \in Procs |-> IF p = 1 THEN "none" ELSE "Update"]
    /\ \E md5 \in BOOLEAN :
         up = [p \in Procs |-> IF p = 1 THEN UpIdle
                               ELSE [UpIdle EXCEPT !.size = 1, !.srcMD5 = md5]]
    /\ InitSide

NextRace ==
    \/ ContainerGone
    \/ \E p \in Procs :
        \/ CallRmdir(p)
        \/ AzListDeleted(p)
        \/ AzListRequest(p)
        \/ DeleteLock(p)
        \/ deleteContainer(p)
        \/ CallUpdate(p)
        \/ MkdirMemo(p)
        \/ MkdirLock(p)
        \/ MkdirCreate(p)
        \/ UpdateChoose(p)
        \/ UploadSingle(p)
        \/ UpdateAfter(p)
        \/ UpdateReadMeta(p)

SpecRace == InitRace /\ [][NextRace]_vars

\* ------------------------------------------------------------------------
\* azureblob: Mkdir, List, Rmdir, Purge and Put on an Fs at its container
\* ------------------------------------------------------------------------
\* caller p starts Put(in, src) of a small object: Update, whose first
\* statement is err = o.fs.Mkdir("")
CallPut(p) ==
    /\ pc[p] \in {"idle", "done"}
    /\ hist[p].calls < MaxCalls
    /\ op' = [op EXCEPT ![p] = "Update"]
    /\ \E md5 \in BOOLEAN :
         up' = [up EXCEPT ![p] = [UpIdle EXCEPT !.size = 1, !.srcMD5 = md5, !.root = opt.root]]
    /\ pc' = [pc EXCEPT ![p] = "mkdir"]
    /\ ret' = [ret EXCEPT ![p] = Nil]
    /\ hist' = [hist EXCEPT ![p] = NewCall(@)]
    /\ UNCHANGED <<cfgVars, uploadToken, fsVars, svc, gor>>

\* an Fs at the root of its container, which exists or not, with two callers
InitDeleted ==
    /\ opt = [ChunkSize |-> 1, UploadCutoff |-> 2, backend |-> "azureblob", vendor |-> "other",
              root |-> << >>]
    /\ svc \in {s \in Stores : s.files \subseteq {<<"b">>}}
    /\ partLimit = maxTotalParts
    /\ transfers = 1
    /\ op = [p \in Procs |-> "none"]
    /\ up = [p \in Procs |-> UpIdle]
    /\ InitFs

NextDeleted ==
    \/ ContainerGone
    \/ \E p \in Procs :
        \/ CallFs(p)
        \/ CallPut(p)
        \/ MkdirMemo(p)
        \/ MkdirLock(p)
        \/ MkdirCreate(p)
        \/ AzListDeleted(p)
        \/ AzListRequest(p)
        \/ markContainerOK(p)
        \/ Purge(p)
        \/ DeleteLock(p)
        \/ deleteContainer(p)
        \/ UpdateChoose(p)
        \/ UploadSingle(p)
        \/ UpdateAfter(p)
        \/ UpdateReadMeta(p)

SpecDeleted == InitDeleted /\ [][NextDeleted]_vars

\* ------------------------------------------------------------------------
\* The command runner: copyurl's RunE, cmd.CheckArgs, cmd.Run and
\* resolveExitCode
\* ------------------------------------------------------------------------
\* An error of the runner is the set of sentinel errors errors.Is finds in
\* its chain and what fserrors says of it; nil is NoError.
RunErr(is, retry, noRetry, fatal) ==
    [nil |-> FALSE, is |-> is, retry |-> retry, noRetry |-> noRetry, fatal |-> fatal,
     noLowLevel |-> FALSE]
NoError == [nil |-> TRUE, is |-> {}, retry |-> FALSE, noRetry |-> FALSE, fatal |-> FALSE,
            noLowLevel |-> FALSE]
\* fserrors.NoLowLevelRetryError(e)
NoLowLevelRetryError(e) == [e EXCEPT !.noLowLevel = TRUE]

errorCommandNotFound == RunErr({"errorCommandNotFound"}, FALSE, FALSE, FALSE)
errorNotEnoughArguments == RunErr({"errorNotEnoughArguments"}, FALSE, FALSE, FALSE)
errorTooManyArguments == RunErr({"errorTooManyArguments"}, FALSE, FALSE, FALSE)

\* fserrors
ShouldRetry(err) == ~err.nil /\ err.retry
IsNoRetryError(err) == ~err.nil /\ err.noRetry
IsFatalError(err) == ~err.nil /\ err.fatal
IsNoLowLevelRetryError(err) == ~err.nil /\ err.noLowLevel
\* errors.Is
Is(err, target) == ~err.nil /\ target \in err.is

\* accounting.GlobalStats(): the errors counted, the last of them, the flags
\* and the transfers made
NoStats == [errors |-> 0, lastError |-> NoError, fatalError |-> FALSE,
            retryError |-> FALSE, transfers |-> 0]
\* fs.CountError
CountError(st, err) ==
    IF err.nil THEN st
    ELSE [st EXCEPT !.errors = 1, !.lastError = err,
                    !.fatalError = @ \/ IsFatalError(err),
                    !.retryError = @ \/ ShouldRetry(err)]
Errored(st) == st.errors # 0
HadFatalError(st) == st.fatalError
HadRetryError(st) == st.retryError
GetLastError(st) == st.lastError
GetTransfers(st) == st.transfers
ResetErrors(st) == [st EXCEPT !.errors = 0, !.lastError = NoError,
                              !.fatalError = FALSE, !.retryError = FALSE]

\* variant: the rule for fatal errors comes before the one for retries
sessionCodeFatalFirst(err) ==
    CASE Is(err, "ErrorDirNotFound") -> "DirNotFound"
      [] Is(err, "ErrorObjectNotFound") -> "FileNotFound"
      [] Is(err, "ErrorMaxTransferLimitReached") -> "TransferExceeded"
      [] Is(err, "ErrorMaxDurationReached") -> "DurationExceeded"
      [] IsFatalError(err) -> "FatalError"
      [] ShouldRetry(err) -> "RetryError"
      [] IsNoRetryError(err) \/ IsNoLowLevelRetryError(err) -> "NoRetryError"
      [] Is(err, "errorCommandNotFound") \/ Is(err, "errorNotEnoughArguments")
            \/ Is(err, "errorTooManyArguments") -> "UsageError"
      [] OTHER -> "UncategorizedError"

\* resolveExitCode: the switch.  The first case that matches prints.
sessionCode(err) ==
    IF Is(err, "ErrorDirNotFound") THEN "DirNotFound"
    ELSE IF Is(err, "ErrorObjectNotFound") THEN "FileNotFound"
    ELSE IF Is(err, "ErrorMaxTransferLimitReached") THEN "TransferExceeded"
    ELSE IF Is(err, "ErrorMaxDurationReached") THEN "DurationExceeded"
    ELSE IF ShouldRetry(err) THEN "RetryError"
    ELSE IF IsNoRetryError(err) \/ IsNoLowLevelRetryError(err) THEN "NoRetryError"
    ELSE IF IsFatalError(err) THEN "FatalError"
    ELSE IF Is(err, "errorCommandNotFound") \/ Is(err, "errorNotEnoughArguments")
            \/ Is(err, "errorTooManyArguments") THEN "UsageError"
    ELSE "UncategorizedError"

\* resolveExitCode: the lines it prints, each with the exit code it names.
\* It returns to its caller after printing.
resolveExitCode(err, errorOnNoTransfer, st) ==
    (IF err.nil /\ errorOnNoTransfer /\ GetTransfers(st) = 0
     THEN <<[line |-> "exitcode", code |-> "NoFilesTransferred"]>> ELSE << >>)
    \o <<[line |-> "session", code |-> sessionCode(err)]>>

\* variant: any error left by the attempt asks for another one
ShouldTryAgainAnyError(retry, st) == retry /\ Errored(st)

\* Run: the three tests after an attempt that end the loop, negated
ShouldTryAgain(retry, st) ==
    /\ ~(~retry \/ ~Errored(st))
    /\ ~HadFatalError(st)
    /\ ~(Errored(st) /\ ~HadRetryError(st))

\* the errors the function of a command returns, and those the operation
\* counts on its way
FuncErrors ==
    { NoError,
      RunErr({}, FALSE, FALSE, FALSE),
      RunErr({}, TRUE, FALSE, FALSE),
      RunErr({}, FALSE, TRUE, FALSE),
      RunErr({}, FALSE, FALSE, TRUE),
      RunErr({}, TRUE, TRUE, FALSE),
      RunErr({}, FALSE, TRUE, TRUE),
      RunErr({}, TRUE, FALSE, TRUE),
      RunErr({"ErrorDirNotFound"}, FALSE, FALSE, FALSE),
      RunErr({"ErrorDirNotFound"}, TRUE, FALSE, TRUE),
      RunErr({"ErrorDirNotFound", "ErrorObjectNotFound"}, FALSE, FALSE, FALSE),
      RunErr({"ErrorObjectNotFound"}, FALSE, TRUE, FALSE),
      RunErr({"ErrorObjectNotFound", "ErrorMaxTransferLimitReached"}, FALSE, FALSE, TRUE),
      RunErr({"ErrorMaxTransferLimitReached"}, FALSE, FALSE, TRUE),
      RunErr({"ErrorMaxTransferLimitReached", "ErrorMaxDurationReached"}, FALSE, FALSE, TRUE),
      RunErr({"ErrorMaxDurationReached"}, TRUE, FALSE, FALSE),
      RunErr({"errorCommandNotFound"}, FALSE, FALSE, FALSE),
      RunErr({"errorCommandNotFound"}, FALSE, FALSE, TRUE),
      RunErr({"ErrorIsFile"}, FALSE, FALSE, FALSE),
      NoLowLevelRetryError(RunErr({}, FALSE, FALSE, TRUE)) }
CountedErrors ==
    { NoError, RunErr({}, TRUE, FALSE, FALSE), RunErr({}, FALSE, FALSE, TRUE),
      RunErr({"ErrorDirNotFound"}, FALSE, TRUE, FALSE) }

\* copyurl: cmd.CheckArgs(1, 2, command, args)
MinArgs == 1
MaxArgs == 2

NoDecision == [try |-> 0, retry |-> FALSE, errored |-> FALSE, fatal |-> FALSE,
               retryable |-> FALSE, again |-> FALSE]
NoResolution == [err |-> NoError, out |-> << >>, transfers |-> 0, by |-> "none"]

\* CheckArgs: too few or too many arguments print the usage and give the
\* error to resolveExitCode; then CheckArgs returns
CheckArgs ==
    /\ cmd.pc = "CheckArgs"
    /\ LET err == IF cmd.nargs < MinArgs THEN errorNotEnoughArguments
                  ELSE IF cmd.nargs > MaxArgs THEN errorTooManyArguments
                  ELSE NoError
           lines == IF err.nil THEN << >>
                    ELSE resolveExitCode(err, cmd.ErrorOnNoTransfer, cmd.stats)
       IN cmd' = [cmd EXCEPT !.pc = "RunE",
                             !.usage = IF err.nil THEN 0 ELSE 1,
                             !.out = @ \o lines,
                             !.resolved = IF err.nil THEN @
                                          ELSE [err |-> err, out |-> lines,
                                                transfers |-> GetTransfers(cmd.stats),
                                                by |-> "CheckArgs"]]
    /\ UNCHANGED <<backendVars, gen, obj, query, fsh>>

\* copyurl RunE after CheckArgs, up to the call of cmd.Run
RunE ==
    /\ cmd.pc = "RunE"
    /\ IF ~cmd.stdout
       THEN IF cmd.nargs < 2
            THEN \* return errors.New("need 2 arguments if not using --stdout")
                 cmd' = [cmd EXCEPT !.pc = "Main"]
            ELSE IF cmd.dash
            THEN cmd' = [cmd EXCEPT !.pc = "Run", !.stdout = TRUE]
            ELSE \* cmd.NewFsDir(args[1:]) or cmd.NewFsDstFile(args[1:])
                 cmd' = [cmd EXCEPT !.pc = "Run", !.fsMade = TRUE]
       ELSE cmd' = [cmd EXCEPT !.pc = "Run"]
    /\ UNCHANGED <<backendVars, gen, obj, query, fsh>>

\* Main: RunE returned an error to Root.Execute
Main ==
    /\ cmd.pc = "Main"
    /\ cmd' = [cmd EXCEPT !.pc = "done",
                          !.out = Append(@, [line |-> "main", code |-> "UsageError"])]
    /\ UNCHANGED <<backendVars, gen, obj, query, fsh>>

\* Run: one pass of the retry loop, or its end
Run ==
    /\ cmd.pc = "Run"
    /\ IF cmd.try > cmd.Retries
       THEN cmd' = [cmd EXCEPT !.pc = "RunEnd"]
       ELSE IF cmd.nargs = 0
       THEN \* the function reads args[0]: index out of range
            cmd' = [cmd EXCEPT !.pc = "panic", !.calls = @ + 1]
       ELSE \E ferr \in FuncErrors, counted \in CountedErrors, moved \in 0..1 :
              LET \* cmdErr = f(), and what the operation leaves in the stats
                  st1 == [CountError(cmd.stats, counted) EXCEPT
                              !.transfers = IF @ + moved > 1 THEN 1 ELSE @ + moved]
                  \* cmdErr = fs.CountError(ctx, cmdErr)
                  st2 == CountError(st1, ferr)
                  lastErr == GetLastError(st2)
                  cmdErr == IF ferr.nil THEN lastErr ELSE ferr
                  again == ShouldTryAgain(cmd.Retry, st2)
                  dec == [try |-> cmd.try, retry |-> cmd.Retry, errored |-> Errored(st2),
                          fatal |-> HadFatalError(st2), retryable |-> HadRetryError(st2),
                          again |-> again /\ cmd.try < cmd.Retries]
              IN cmd' = [cmd EXCEPT
                    !.calls = @ + 1,
                    !.ferr = ferr,
                    !.cmdErr = cmdErr,
                    !.dec = dec,
                    !.stats = IF again /\ cmd.try < cmd.Retries THEN ResetErrors(st2) ELSE st2,
                    !.try = IF again THEN @ + 1 ELSE @,
                    !.pc = IF again THEN "Run" ELSE "RunEnd"]
    /\ UNCHANGED <<backendVars, gen, obj, query, fsh>>

\* Run after the loop: the last error of the stats stands in for a nil
\* cmdErr; resolveExitCode; Run returns and RunE returns nil
RunEnd ==
    /\ cmd.pc = "RunEnd"
    /\ LET cmdErr == IF cmd.cmdErr.nil THEN GetLastError(cmd.stats) ELSE cmd.cmdErr
           lines == resolveExitCode(cmdErr, cmd.ErrorOnNoTransfer, cmd.stats)
       IN cmd' = [cmd EXCEPT !.pc = "done",
                             !.cmdErr = cmdErr,
                             !.out = @ \o lines,
                             !.resolved = [err |-> cmdErr, out |-> lines,
                                           transfers |-> GetTransfers(cmd.stats),
                                           by |-> "Run"]]
    /\ UNCHANGED <<backendVars, gen, obj, query, fsh>>

\* the Fs is not in use while a command is set up
InitIdleFs ==
    /\ opt = [ChunkSize |-> 1, UploadCutoff |-> 1, backend |-> "none", vendor |-> "other",
              root |-> << >>]
    /\ partLimit = maxTotalParts
    /\ transfers = 1
    /\ svc = NoStore
    /\ op = [p \in Procs |-> "none"]
    /\ up = [p \in Procs |-> UpIdle]
    /\ uploadToken = transfers
    /\ containerOK = FALSE
    /\ containerDeleted = FALSE
    /\ containerOKMu = 0
    /\ pc = [p \in Procs |-> "idle"]
    /\ ret = [p \in Procs |-> Nil]
    /\ gor = [p \in Procs |-> << >>]
    /\ hist = [p \in Procs |-> HistIdle]

\* copyurl is started with some arguments and flags, under some configuration
InitRun ==
    /\ InitIdleFs
    /\ \E n \in 0..MaxArgsGiven, so \in BOOLEAN, dash \in BOOLEAN,
          retry \in BOOLEAN, tries \in 0..MaxTries, eont \in BOOLEAN :
         /\ dash => n >= 2 /\ ~so
         /\ ~retry => n = 2 /\ ~so /\ ~dash
         /\ cmd = [pc |-> "CheckArgs", nargs |-> n, stdout |-> so, dash |-> dash,
                   Retry |-> retry, Retries |-> tries, ErrorOnNoTransfer |-> eont,
                   try |-> 1, cmdErr |-> NoError, ferr |-> NoError, stats |-> NoStats,
                   out |-> << >>, usage |-> 0, fsMade |-> FALSE, calls |-> 0,
                   dec |-> NoDecision, resolved |-> NoResolution]
    /\ gen = Unused
    /\ obj = Unused
    /\ query = Unused
    /\ fsh = Unused

NextRun ==
    \/ CheckArgs
    \/ RunE
    \/ Main
    \/ Run
    \/ RunEnd

SpecRun == InitRun /\ [][NextRun]_vars

\* ------------------------------------------------------------------------
\* vfs/make_open_tests.go: the generator of the open-mode matrix
\* ------------------------------------------------------------------------
\* the access modes of package os; the other flags have no bit in common with
\* them and are kept as a set of names next to the access mode
O_RDONLY == 0
O_WRONLY == 1
O_RDWR == 2

OpenBits == <<"O_APPEND", "O_CREATE", "O_EXCL", "O_SYNC", "O_TRUNC">>

\* flags & accessModeMask
accessMode(flags) == flags.rw

hello == <<"h", "e", "l", "l", "o">>
HEL == <<"H", "E", "L">>

NoFile == [exists |-> FALSE, data |-> << >>]

\* open(2) of Linux: ENOENT without O_CREATE, EEXIST with O_CREATE|O_EXCL,
\* and O_TRUNC empties the file whatever the access mode
OpenFile(f, flags) ==
    IF ~f.exists /\ "O_CREATE" \notin flags.bits
    THEN [err |-> "no such file or directory", file |-> f, pos |-> 0]
    ELSE IF f.exists /\ {"O_CREATE", "O_EXCL"} \subseteq flags.bits
    THEN [err |-> "file exists", file |-> f, pos |-> 0]
    ELSE [err |-> "nil", pos |-> 0,
          file |-> [exists |-> TRUE,
                    data |-> IF "O_TRUNC" \in flags.bits THEN << >> ELSE f.data]]

\* read(2) into a buffer of n bytes at the position of the handle
ReadFile(h, flags, n) ==
    IF accessMode(flags) = O_WRONLY THEN [err |-> "bad file descriptor", pos |-> h.pos]
    ELSE IF h.pos >= Len(h.file.data) THEN [err |-> "EOF", pos |-> h.pos]
    ELSE [err |-> "nil",
          pos |-> IF h.pos + n <= Len(h.file.data) THEN h.pos + n ELSE Len(h.file.data)]

\* write(2) at the position of the handle, or at the end with O_APPEND
WriteFile(h, flags, pos, d) ==
    IF accessMode(flags) = O_RDONLY THEN [err |-> "bad file descriptor", file |-> h.file]
    ELSE LET at == IF "O_APPEND" \in flags.bits THEN Len(h.file.data) ELSE pos
             old == h.file.data
         IN [err |-> "nil",
             file |-> [exists |-> TRUE,
                       data |-> SubSeq(old, 1, at) \o d
                                  \o SubSeq(old, at + Len(d) + 1, Len(old))]]

\* test: open with the flags, and on success read two bytes, write d, close
OpenReadWrite(f, flags, d) ==
    LET h == OpenFile(f, flags)
        r == ReadFile(h, flags, 2)
        w == WriteFile(h, flags, r.pos, d)
    IN IF h.err # "nil"
       THEN [open |-> h.err, read |-> "nil", write |-> "nil", file |-> h.file]
       ELSE [open |-> h.err, read |-> r.err, write |-> w.err, file |-> w.file]

whichError(err) ==
    CASE err = "nil" -> "nil"
      [] err = "EOF" -> "io.EOF"
      [] err = "ErrInvalid" -> "EINVAL"
      [] err = "no such file or directory" -> "ENOENT"
      [] err = "bad file descriptor" -> "EBADF"
      [] err = "file exists" -> "EEXIST"
      [] OTHER -> ""

NoResults ==
    [openNonExistentErr |-> "nil", readNonExistentErr |-> "nil",
     writeNonExistentErr |-> "nil", openExistingErr |-> "nil",
     readExistingErr |-> "nil", writeExistingErr |-> "nil", contents |-> << >>]

\* variant: every combination with O_TRUNC is replaced
overrideAnyTrunc(flags, r) ==
    IF "O_TRUNC" \in flags.bits
    THEN [NoResults EXCEPT !.openNonExistentErr = "ErrInvalid",
                           !.openExistingErr = "ErrInvalid",
                           !.contents = hello]
    ELSE r

\* test: the results of O_RDONLY with O_TRUNC are replaced by EINVAL
override(flags, r) ==
    IF accessMode(flags) = O_RDONLY /\ "O_TRUNC" \in flags.bits
    THEN [NoResults EXCEPT !.openNonExistentErr = "ErrInvalid",
                           !.openExistingErr = "ErrInvalid",
                           !.contents = hello]
    ELSE r

\* test: the struct printed for one combination
openTest(flags, mode, r) ==
    [flags |-> mode, what |-> mode,
     openNonExistentErr |-> whichError(r.openNonExistentErr),
     readNonExistentErr |-> whichError(r.readNonExistentErr),
     writeNonExistentErr |-> whichError(r.writeNonExistentErr),
     openExistingErr |-> whichError(r.openExistingErr),
     readExistingErr |-> whichError(r.readExistingErr),
     writeExistingErr |-> whichError(r.writeExistingErr),
     contents |-> r.contents]

\* main: the loops over rwMode, appendMode, createMode, exclMode, syncMode and
\* truncMode, the last one innermost, counted by i
Combinations == 3 * 2 * 2 * 2 * 2 * 2

Half(i, k) == IF k = 5 THEN i ELSE IF k = 4 THEN i \div 2 ELSE IF k = 3 THEN i \div 4
              ELSE IF k = 2 THEN i \div 8 ELSE i \div 16

flagsOf(i) ==
    [rw |-> i \div 32,
     bits |-> {OpenBits[k] : k \in {j \in 1..5 : Half(i, j) % 2 = 1}}]

RECURSIVE partsFrom(_, _)
partsFrom(flags, k) ==
    IF k > Len(OpenBits) THEN << >>
    ELSE (IF OpenBits[k] \in flags.bits THEN <<"os." \o OpenBits[k]>> ELSE << >>)
           \o partsFrom(flags, k + 1)

\* main: textMode before strings.Join
textMode(flags) ==
    << <<"os.O_RDONLY", "os.O_WRONLY", "os.O_RDWR">>[flags.rw + 1] >> \o partsFrom(flags, 1)

\* main: the next combination is handed to test; after the last one the
\* table is closed
main ==
    /\ gen.pc = "main"
    /\ IF gen.i < Combinations
       THEN gen' = [gen EXCEPT !.pc = "nonExistent", !.flags = flagsOf(gen.i),
                               !.file = NoFile, !.r = NoResults]
       ELSE gen' = [gen EXCEPT !.pc = "done"]
    /\ UNCHANGED <<backendVars, cmd, obj, query, fsh>>

\* test: the file does not exist
testNonExistent ==
    /\ gen.pc = "nonExistent"
    /\ LET t == OpenReadWrite(gen.file, gen.flags, hello)
       IN gen' = [gen EXCEPT !.pc = "create", !.file = t.file,
                             !.r.openNonExistentErr = t.open,
                             !.r.readNonExistentErr = t.read,
                             !.r.writeNonExistentErr = t.write]
    /\ UNCHANGED <<backendVars, cmd, obj, query, fsh>>

\* test: the file is written with "hello"
testCreate ==
    /\ gen.pc = "create"
    /\ gen' = [gen EXCEPT !.pc = "existing", !.file = [exists |-> TRUE, data |-> hello]]
    /\ UNCHANGED <<backendVars, cmd, obj, query, fsh>>

\* test: the file exists
testExisting ==
    /\ gen.pc = "existing"
    /\ LET t == OpenReadWrite(gen.file, gen.flags, HEL)
       IN gen' = [gen EXCEPT !.pc = "contents", !.file = t.file,
                             !.r.openExistingErr = t.open,
                             !.r.readExistingErr = t.read,
                             !.r.writeExistingErr = t.write]
    /\ UNCHANGED <<backendVars, cmd, obj, query, fsh>>

\* test: the file is read back and removed
testContents ==
    /\ gen.pc = "contents"
    /\ gen' = [gen EXCEPT !.pc = "output", !.r.contents = gen.file.data, !.file = NoFile]
    /\ UNCHANGED <<backendVars, cmd, obj, query, fsh>>

\* test: the results are replaced for O_RDONLY with O_TRUNC, and printed
testOutput ==
    /\ gen.pc = "output"
    /\ gen' = [gen EXCEPT !.pc = "main", !.i = gen.i + 1,
                 !.linux = Append(gen.linux,
                                  openTest(gen.flags, textMode(gen.flags), gen.r)),
                 !.openTests = Append(gen.openTests,
                                  openTest(gen.flags, textMode(gen.flags),
                                           override(gen.flags, gen.r)))]
    /\ UNCHANGED <<backendVars, cmd, obj, query, fsh>>

InitOpen ==
    /\ InitIdleFs
    /\ gen = [pc |-> "main", i |-> 0, flags |-> flagsOf(0), file |-> NoFile,
              r |-> NoResults, linux |-> << >>, openTests |-> << >>]
    /\ cmd = Unused
    /\ obj = Unused
    /\ query = Unused
    /\ fsh = Unused

NextOpen ==
    \/ main
    \/ testNonExistent
    \/ testCreate
    \/ testExisting
    \/ testContents
    \/ testOutput

SpecOpen == InitOpen /\ [][NextOpen]_vars

\* ------------------------------------------------------------------------
\* azureblob Object: the modification time kept in the metadata of the blob
\* ------------------------------------------------------------------------
\* A time.Time is an instant, sec seconds and nsec nanoseconds after the
\* zero time, seen in a zone off seconds east of UTC.
Time(sec, nsec, off) == [sec |-> sec, nsec |-> nsec, off |-> off]

ZeroTime == Time(0, 0, 0)

IsZero(t) == t.sec = 0 /\ t.nsec = 0

\* time.Time.Equal: the same instant
Equal(a, b) == a.sec = b.sec /\ a.nsec = b.nsec

\* the digits after the decimal point in timeFormatOut
fracDigits == 9

RECURSIVE Digits(_, _)
Digits(n, w) == IF w = 0 THEN << >> ELSE Digits(n \div 10, w - 1) \o <<n % 10>>

RECURSIVE Number(_)
Number(ds) == IF ds = << >> THEN 0
              ELSE 10 * Number(SubSeq(ds, 1, Len(ds) - 1)) + ds[Len(ds)]

RECURSIVE Pow10(_)
Pow10(k) == IF k = 0 THEN 1 ELSE 10 * Pow10(k - 1)

\* the zone of a layout ending in Z07:00: Z for UTC, else sign, hours and
\* minutes of the offset; the seconds of the offset are not printed
ZoneMinutes(off) == IF off < 0 THEN 0 - ((0 - off) \div 60) ELSE off \div 60

\* modTime.Format(timeFormatOut): date and clock of the zone of t, nine
\* digits of the nanoseconds, the zone
Format(t) ==
    [clock |-> t.sec + t.off,
     frac |-> Digits(t.nsec, fracDigits),
     zone |-> IF t.off = 0 THEN [sign |-> "Z", hh |-> 0, mm |-> 0]
              ELSE [sign |-> IF ZoneMinutes(t.off) < 0 THEN "-" ELSE "+",
                    hh |-> (IF ZoneMinutes(t.off) < 0 THEN 0 - ZoneMinutes(t.off)
                            ELSE ZoneMinutes(t.off)) \div 60,
                    mm |-> (IF ZoneMinutes(t.off) < 0 THEN 0 - ZoneMinutes(t.off)
                            ELSE ZoneMinutes(t.off)) % 60]]

\* time.Parse(timeFormatIn, s): the instant is the clock less the zone
Parse(s) ==
    LET off == IF s.zone.sign = "Z" THEN 0
               ELSE (IF s.zone.sign = "-" THEN 0 - 1 ELSE 1)
                      * (s.zone.hh * 3600 + s.zone.mm * 60)
    IN Time(s.clock - off, Number(s.frac) * Pow10(fracDigits - Len(s.frac)), off)

MaxWrites == 2       \* writes of the modification time in one run

modTimeKey == "mtime"

\* the times written: the zero time, whole and broken seconds, UTC, zones of
\* whole hours and half hours, and a local mean time whose offset has seconds
Times ==
    {Time(s, n, z) : s \in {0, 90000}, n \in {0, 1, 123456789, 999999999},
                     z \in {0, 3600, 0 - 16200, 1172}}

\* LastModified, the clock of the service
ServiceTimes == {Time(200000, 0, 0)}

NoMeta == << >>

OtherMeta == "other" :> [text |-> "x"]

NoBlob == [exists |-> FALSE, meta |-> NoMeta, lastModified |-> ZeroTime]

NoTime == [valid |-> FALSE, time |-> ZeroTime]

\* azureblob updateMetadataWithModTime, and the same lines of SetModTime
updateMetadataWithModTime(o, modTime) ==
    [o EXCEPT !.meta = (modTimeKey :> Format(modTime)) @@ o.meta]

\* time.Parse returns an error, and the zero time, for a value that does
\* not follow the layout; of such values the model has one, BadStamp
ParseFails(s) == s.zone.sign \notin {"Z", "+", "-"}
BadStamp == [clock |-> 0, frac |-> << >>, zone |-> [sign |-> "?", hh |-> 0, mm |-> 0]]

\* azureblob Object.setMetadata: when, err := time.Parse(...); the error is
\* logged; o.modTime = when
setMetadata(o, metadata) ==
    IF DOMAIN metadata # {}
    THEN IF modTimeKey \in DOMAIN metadata
         THEN [o EXCEPT !.meta = metadata,
                        !.modTime = IF ParseFails(metadata[modTimeKey]) THEN ZeroTime
                                    ELSE Parse(metadata[modTimeKey])]
         ELSE [o EXCEPT !.meta = metadata]
    ELSE [o EXCEPT !.meta = NoMeta]

\* azureblob Object.decodeMetaDataFromPropertiesResponse
decodeMetaDataFromPropertiesResponse(o, info) ==
    setMetadata([o EXCEPT !.modTime = info.lastModified], info.meta)

\* azureblob Object.clearMetaData
clearMetaData(o) == [o EXCEPT !.modTime = ZeroTime]

\* azureblob Object.readMetaData: ok says whether GetProperties succeeds
ObjectReadMetaData(o, blob, ok) ==
    IF ~IsZero(o.modTime) THEN [err |-> "nil", o |-> o]
    ELSE IF ~ok THEN [err |-> "error", o |-> o]
    ELSE [err |-> "nil", o |-> decodeMetaDataFromPropertiesResponse(o, blob)]

FreshObject == [modTime |-> ZeroTime, meta |-> NoMeta]

\* azureblob Object.Update, as far as the modification time goes: the
\* metadata is stamped, the blob is uploaded with it, the metadata is read back
ObjectUpdate ==
    /\ obj.pc = "object" /\ obj.writes < MaxWrites
    /\ \E t \in Times, lm \in ServiceTimes, answer \in {"ok", "uploadFailed", "readFailed"} :
         LET o1 == updateMetadataWithModTime(obj.o, t)
             b1 == [exists |-> TRUE, meta |-> o1.meta, lastModified |-> lm]
             rd == ObjectReadMetaData(clearMetaData(o1), b1, answer = "ok")
         IN IF answer = "uploadFailed"
            THEN obj' = [obj EXCEPT !.o = o1, !.writes = @ + 1, !.err = "error"]
            ELSE obj' = [obj EXCEPT !.o = rd.o, !.blob = b1, !.writes = @ + 1,
                                    !.err = rd.err, !.t = t, !.written = TRUE,
                                    !.how = "Update",
                                    !.seen = NoTime, !.reread = NoTime]
    /\ UNCHANGED <<backendVars, cmd, gen, query, fsh>>

\* azureblob Object.SetModTime: ok says whether SetMetadata succeeds
ObjectSetModTime ==
    /\ obj.pc = "object" /\ obj.writes < MaxWrites
    /\ \E t \in Times, ok \in BOOLEAN :
         LET o1 == updateMetadataWithModTime(obj.o, t)
         IN IF ~ok \/ ~obj.blob.exists
            THEN obj' = [obj EXCEPT !.o = o1, !.writes = @ + 1, !.err = "error"]
            ELSE obj' = [obj EXCEPT !.o = [o1 EXCEPT !.modTime = t],
                                    !.blob.meta = o1.meta, !.writes = @ + 1,
                                    !.err = "nil", !.t = t, !.written = TRUE,
                                    !.how = "SetModTime",
                                    !.seen = NoTime, !.reread = NoTime]
    /\ UNCHANGED <<backendVars, cmd, gen, query, fsh>>

\* azureblob Object.ModTime on the Object that was written
ObjectModTime ==
    /\ obj.pc = "object"
    /\ \E ok \in BOOLEAN :
         LET rd == ObjectReadMetaData(obj.o, obj.blob, ok /\ obj.blob.exists)
         IN obj' = [obj EXCEPT !.o = rd.o,
                               !.seen = [valid |-> rd.err = "nil", time |-> rd.o.modTime]]
    /\ UNCHANGED <<backendVars, cmd, gen, query, fsh>>

\* NewObject and ModTime: the Object is read again from the service
ObjectReread ==
    /\ obj.pc = "object"
    /\ \E ok \in BOOLEAN :
         LET rd == ObjectReadMetaData(FreshObject, obj.blob, ok /\ obj.blob.exists)
         IN obj' = [obj EXCEPT !.reread = [valid |-> rd.err = "nil", time |-> rd.o.modTime]]
    /\ UNCHANGED <<backendVars, cmd, gen, query, fsh>>

\* the Object is new, or was read from a blob without metadata or with
\* metadata that has no mtime
InitMtime ==
    /\ InitIdleFs
    /\ \E b \in {NoBlob} \cup {[exists |-> TRUE, meta |-> m, lastModified |-> lm] :
                               m \in {NoMeta, OtherMeta}, lm \in ServiceTimes} :
         obj = [pc |-> "object", blob |-> b,
                o |-> IF b.exists THEN decodeMetaDataFromPropertiesResponse(FreshObject, b)
                      ELSE FreshObject,
                writes |-> 0, err |-> "nil", t |-> ZeroTime, written |-> FALSE,
                how |-> "none", seen |-> NoTime, reread |-> NoTime]
    /\ cmd = Unused
    /\ gen = Unused
    /\ query = Unused
    /\ fsh = Unused

NextMtime ==
    \/ ObjectUpdate
    \/ ObjectSetModTime
    \/ ObjectModTime
    \/ ObjectReread

SpecMtime == InitMtime /\ [][NextMtime]_vars

\* ------------------------------------------------------------------------
\* An Object and the metadata it holds: readMetaData, Size, ModTime, Hash
\* and Update of azureblob and of webdav
\* ------------------------------------------------------------------------
MaxMetaCalls == 3    \* calls made on the Object in one run

\* an Object that NewObject has made and not filled
FreshMeta == [modTime |-> ZeroTime, meta |-> NoMeta, hasMetaData |-> FALSE, size |-> 0]

\* the metadata a blob may carry: none, none with mtime, an mtime written by
\* rclone, the zero time, a value that is no timestamp
BlobMetas ==
    {NoMeta, OtherMeta, modTimeKey :> Format(Time(90000, 1, 3600)),
     modTimeKey :> Format(ZeroTime), modTimeKey :> BadStamp}

\* readMetaData of either backend: whether it sent a request, its error and
\* the Object afterwards; ok says whether the request succeeds
readMetaDataOf(backend, o, blob, ok) ==
    IF backend = "azureblob"
    THEN LET rd == ObjectReadMetaData(o, blob, ok)
             fetched == IsZero(o.modTime)
         IN [fetched |-> fetched, err |-> rd.err,
             o |-> IF fetched /\ ok THEN [rd.o EXCEPT !.size = blob.size] ELSE rd.o]
    ELSE IF o.hasMetaData THEN [fetched |-> FALSE, err |-> "nil", o |-> o]
    ELSE IF ~ok THEN [fetched |-> TRUE, err |-> "error", o |-> o]
    ELSE [fetched |-> TRUE, err |-> "nil",
          o |-> [o EXCEPT !.hasMetaData = TRUE, !.size = blob.size,
                          !.modTime = blob.lastModified]]

\* no call yet
NoMetaCall == [op |-> "none", fetched |-> FALSE, err |-> "nil", held |-> FALSE,
               time |-> ZeroTime]

\* readMetaData, Size, ModTime or Hash is called on the Object.  Size of
\* azureblob and Hash of both return a field; the others begin with
\* readMetaData
MetaCall ==
    /\ obj.pc = "meta" /\ obj.calls < MaxMetaCalls
    /\ \E o \in {"readMetaData", "Size", "ModTime", "Hash"}, ok \in BOOLEAN :
         LET reads == o \in {"readMetaData", "ModTime"} \/ (o = "Size" /\ obj.backend = "webdav")
             rd == IF reads THEN readMetaDataOf(obj.backend, obj.o, obj.blob, ok)
                   ELSE [fetched |-> FALSE, err |-> "nil", o |-> obj.o]
         IN /\ ~reads => ok
            /\ obj' = [obj EXCEPT !.o = rd.o, !.calls = @ + 1,
                                  !.held = @ \/ (rd.fetched /\ rd.err = "nil"),
                                  !.last = [op |-> o, fetched |-> rd.fetched, err |-> rd.err,
                                            held |-> obj.held, time |-> rd.o.modTime]]
    /\ UNCHANGED <<backendVars, cmd, gen, query, fsh>>

\* Update: the upload, and when it succeeded the invalidation and
\* readMetaData
MetaUpdate ==
    /\ obj.pc = "meta" /\ obj.calls < MaxMetaCalls
    /\ \E t \in {ZeroTime, Time(90000, 1, 0)}, sz \in {1, 2},
          answer \in {"ok", "uploadFailed", "readFailed"} :
         LET o1 == IF obj.backend = "azureblob" THEN updateMetadataWithModTime(obj.o, t)
                   ELSE obj.o
             b1 == [exists |-> TRUE, meta |-> o1.meta, size |-> sz,
                    lastModified |-> Time(200000 + obj.calls + 1, 0, 0)]
             o2 == IF obj.backend = "azureblob" THEN clearMetaData(o1)
                   ELSE [o1 EXCEPT !.hasMetaData = FALSE]
             rd == readMetaDataOf(obj.backend, o2, b1, answer = "ok")
         IN IF answer = "uploadFailed"
            THEN obj' = [obj EXCEPT !.o = o1, !.calls = @ + 1,
                                    !.last = [op |-> "Update", fetched |-> FALSE,
                                              err |-> "error", held |-> obj.held,
                                              time |-> o1.modTime]]
            ELSE obj' = [obj EXCEPT !.o = rd.o, !.blob = b1, !.calls = @ + 1,
                                    !.held = rd.fetched /\ rd.err = "nil",
                                    !.last = [op |-> "Update", fetched |-> rd.fetched,
                                              err |-> rd.err, held |-> obj.held,
                                              time |-> rd.o.modTime]]
    /\ UNCHANGED <<backendVars, cmd, gen, query, fsh>>

\* an Object of either backend that has not read its metadata, and its blob
InitMeta ==
    /\ InitIdleFs
    /\ \E b \in {"azureblob", "webdav"}, m \in BlobMetas, sz \in {1, 2} :
         /\ b = "webdav" => m = NoMeta
         /\ obj = [pc |-> "meta", backend |-> b, o |-> FreshMeta,
                   blob |-> [exists |-> TRUE, meta |-> m, size |-> sz,
                             lastModified |-> Time(200000, 0, 0)],
                   calls |-> 0, held |-> FALSE, last |-> NoMetaCall]
    /\ cmd = Unused
    /\ gen = Unused
    /\ query = Unused
    /\ fsh = Unused

NextMeta ==
    \/ MetaCall
    \/ MetaUpdate

SpecMeta == InitMeta /\ [][NextMeta]_vars

\* ------------------------------------------------------------------------
\* Fs.shouldRetry of azureblob and of webdav
\* ------------------------------------------------------------------------
Backends == {"azureblob", "webdav"}

\* an error made from a response, a socket error that may pass, any other
\* error, and the error of a failed fetchAndSetBearerToken
HttpError == RunErr({"http"}, FALSE, FALSE, FALSE)
SocketError == RunErr({"socket"}, TRUE, FALSE, FALSE)
OtherError == RunErr({"other"}, FALSE, FALSE, FALSE)
authErr == RunErr({"auth"}, FALSE, FALSE, FALSE)

NoResponse == [nil |-> TRUE, StatusCode |-> 0]
Response(status) == [nil |-> FALSE, StatusCode |-> status]

StatusCodes == 100..599

\* variant: 408, 429 and every 5xx
retryErrorCodesDefault(backend) == {408, 429} \cup (500..599)

\* retryErrorCodes of the two backends
retryErrorCodes(backend) ==
    IF backend = "azureblob" THEN {401, 408, 429, 500, 503, 504}
    ELSE {423, 429, 500, 502, 503, 504, 509}

\* fserrors.ShouldRetryHTTP
ShouldRetryHTTP(resp, codes) == ~resp.nil /\ resp.StatusCode \in codes

\* Fs.shouldRetry: azureblob takes the status from the StorageError, webdav
\* from the response; fetched says whether fetchAndSetBearerToken succeeds
FsShouldRetry(backend, resp, err, bearerTokenCommand, fetched) ==
    IF backend = "azureblob"
    THEN IF Is(err, "http") /\ resp.StatusCode \in retryErrorCodes(backend)
         THEN [retry |-> TRUE, err |-> err]
         ELSE [retry |-> ShouldRetry(err), err |-> err]
    ELSE IF bearerTokenCommand /\ ~resp.nil /\ resp.StatusCode = 401
         THEN [retry |-> TRUE, err |-> IF fetched THEN err ELSE authErr]
         ELSE [retry |-> ShouldRetry(err) \/ ShouldRetryHTTP(resp, retryErrorCodes(backend)),
               err |-> err]

\* a request has ended with a response or without one
CallShouldRetry ==
    /\ query.pc = "shouldRetry"
    /\ query' = [query EXCEPT !.pc = "done",
                    !.result = FsShouldRetry(query.backend, query.resp, query.err,
                                             query.bearerTokenCommand, query.fetched)]
    /\ UNCHANGED <<backendVars, cmd, gen, obj, fsh>>

\* the request was answered with some status: 2xx without an error, any other
\* with an error made from the response; or it failed without an answer
InitRetry ==
    /\ InitIdleFs
    /\ \E b \in Backends, s \in StatusCodes \cup {0}, socket \in BOOLEAN,
          btc \in BOOLEAN, fetched \in BOOLEAN :
         /\ s # 0 => ~socket
         /\ (b = "azureblob" \/ ~btc) => fetched
         /\ b = "azureblob" => ~btc
         /\ query = [pc |-> "shouldRetry", backend |-> b,
                     resp |-> IF s = 0 THEN NoResponse ELSE Response(s),
                     err |-> IF s = 0 THEN (IF socket THEN SocketError ELSE OtherError)
                             ELSE IF s \in 200..299 THEN NoError ELSE HttpError,
                     bearerTokenCommand |-> btc, fetched |-> fetched,
                     result |-> [retry |-> FALSE, err |-> NoError]]
    /\ cmd = Unused
    /\ gen = Unused
    /\ obj = Unused
    /\ fsh = Unused

NextRetry == CallShouldRetry

SpecRetry == InitRetry /\ [][NextRetry]_vars

\* ------------------------------------------------------------------------
\* Fs.Hashes and Object.Hash of azureblob and of webdav
\* ------------------------------------------------------------------------
\* hash.Type: None is 0 and every other type is one bit of a hash.Set
\* the families of hash.Type in the order of the enum
HashNames == <<"MD5", "SHA1", "CRC32", "Dropbox", "QuickXorHash", "Whirlpool", "Mailru">>

RECURSIVE Pow2(_)
Pow2(k) == IF k = 0 THEN 1 ELSE 2 * Pow2(k - 1)

HashType(name) ==
    IF name = "None" THEN 0
    ELSE Pow2((CHOOSE k \in 1..Len(HashNames) : HashNames[k] = name) - 1)

HashTypes == {HashType(n) : n \in {"None"} \cup {HashNames[k] : k \in 1..Len(HashNames)}}

\* hash.Set(t): the conversion of one type to a set keeps the number
HashSet(t) == t

\* hash.NewHashSet
NewHashSet(ts) ==
    LET RECURSIVE Or(_)
        Or(s) == IF s = {} THEN 0
                 ELSE LET t == CHOOSE x \in s : TRUE IN t + Or(s \ {t})
    IN Or(ts)

\* hash.Set.Contains: int(h) & int(t) != 0
Contains(h, t) == t # 0 /\ (h \div t) % 2 = 1

Vendors == {"owncloud", "nextcloud", "sharepoint", "other", "unknown"}

\* webdav setQuirks
hasChecksums(vendor) == vendor \in {"owncloud", "nextcloud"}

\* variant: webdav advertises MD5 and SHA-1 for every vendor
HashesAnyVendor(backend, vendor) ==
    IF backend = "azureblob" THEN HashSet(HashType("MD5"))
    ELSE NewHashSet({HashType("MD5"), HashType("SHA1")})

\* Fs.Hashes
Hashes(backend, vendor) ==
    IF backend = "azureblob" THEN HashSet(HashType("MD5"))
    ELSE IF hasChecksums(vendor) THEN NewHashSet({HashType("MD5"), HashType("SHA1")})
    ELSE HashSet(HashType("None"))

\* base64.StdEncoding.DecodeString and hex.EncodeToString, on the values of
\* Content-MD5 used here
Base64ToHex(s) ==
    IF s = "1B2M2Y8AsgTpgAmY7PhCfg=="
    THEN [ok |-> TRUE, hex |-> "d41d8cd98f00b204e9800998ecf8427e"]
    ELSE [ok |-> FALSE, hex |-> ""]

\* Object.Hash
ObjectHash(backend, vendor, o, t) ==
    IF backend = "azureblob"
    THEN IF t # HashType("MD5") THEN [sum |-> "", err |-> "ErrUnsupported"]
         ELSE IF o.md5 = "" THEN [sum |-> "", err |-> "nil"]
         ELSE IF ~Base64ToHex(o.md5).ok
         THEN [sum |-> "", err |-> "Failed to decode Content-MD5"]
         ELSE [sum |-> Base64ToHex(o.md5).hex, err |-> "nil"]
    ELSE IF hasChecksums(vendor) /\ t = HashType("SHA1") THEN [sum |-> o.sha1, err |-> "nil"]
    ELSE IF hasChecksums(vendor) /\ t = HashType("MD5") THEN [sum |-> o.md5, err |-> "nil"]
    ELSE [sum |-> "", err |-> "ErrUnsupported"]

\* the Objects a backend makes: azureblob keeps Content-MD5 in base64, webdav
\* the checksums of the vendors that have them, in hex
HashObjects(backend, vendor) ==
    IF backend = "azureblob"
    THEN {[md5 |-> x, sha1 |-> ""] : x \in {"", "1B2M2Y8AsgTpgAmY7PhCfg==", "not base64"}}
    ELSE IF hasChecksums(vendor)
    THEN {[md5 |-> x, sha1 |-> y] :
            x \in {"", "d41d8cd98f00b204e9800998ecf8427e"},
            y \in {"", "da39a3ee5e6b4b0d3255bfef95601890afd80709"}}
    ELSE {[md5 |-> "", sha1 |-> ""]}

CallHash ==
    /\ query.pc = "Hash"
    /\ query' = [query EXCEPT !.pc = "done",
                    !.hashes = Hashes(query.backend, query.vendor),
                    !.result = ObjectHash(query.backend, query.vendor, query.o, query.t)]
    /\ UNCHANGED <<backendVars, cmd, gen, obj, fsh>>

InitHash ==
    /\ InitIdleFs
    /\ \E b \in Backends, v \in Vendors, t \in HashTypes :
         /\ b = "azureblob" => v = "other"
         /\ \E o \in HashObjects(b, v) :
              query = [pc |-> "Hash", backend |-> b, vendor |-> v, o |-> o, t |-> t,
                       hashes |-> 0, result |-> [sum |-> "", err |-> "nil"]]
    /\ cmd = Unused
    /\ gen = Unused
    /\ obj = Unused
    /\ fsh = Unused

NextHash == CallHash

SpecHash == InitHash /\ [][NextHash]_vars

\* ------------------------------------------------------------------------
\* What an Fs says of itself: Name, Root, String, Precision, Features
\* ------------------------------------------------------------------------
MaxTokens == 2

\* the optional capabilities Fill finds on each Fs, with the flags NewFs gives
FilledFeatures(backend) ==
    IF backend = "azureblob"
    THEN {"ReadMimeType", "WriteMimeType", "BucketBased", "Purge", "Copy", "ListR"}
    ELSE {"CanHaveEmptyDirectories", "Purge", "PutStream", "Copy", "Move", "DirMove", "About"}

\* the operations of each Fs
HandleOps(backend) ==
    IF backend = "azureblob"
    THEN {"List", "ListR", "NewObject", "Put", "Mkdir", "Rmdir", "Purge", "Copy"}
    ELSE {"List", "NewObject", "Put", "PutStream", "Mkdir", "Rmdir", "Purge", "Copy", "Move",
          "DirMove", "About"}

\* the Fs before NewFs is called with this root
NoHandle(root) ==
    [pc |-> "new", name |-> "remote", given |-> root, root |-> << >>, precision |-> "none",
     features |-> {}, canStream |-> FALSE, useOCMtime |-> FALSE, hasChecksums |-> FALSE,
     retryWithZeroDepth |-> FALSE, bearerToken |-> 0, containerOK |-> FALSE,
     containerDeleted |-> FALSE, err |-> Nil, last |-> [op |-> "none", ans |-> "none"]]

\* webdav setBearerToken
setBearerToken(h, token) == [h EXCEPT !.bearerToken = token]

\* webdav setQuirks
setQuirks(h, vendor) ==
    LET q == CASE vendor = "owncloud" ->
                    [h EXCEPT !.canStream = TRUE, !.precision = "Second", !.useOCMtime = TRUE,
                              !.hasChecksums = TRUE]
               [] vendor = "nextcloud" ->
                    [h EXCEPT !.precision = "Second", !.useOCMtime = TRUE,
                              !.hasChecksums = TRUE]
               [] vendor = "sharepoint" -> [h EXCEPT !.retryWithZeroDepth = TRUE]
               [] OTHER -> h
    IN IF ~q.canStream THEN [q EXCEPT !.features = @ \ {"PutStream"}] ELSE q

\* NewFs up to the probe of the root: the Fs is built, webdav takes its bearer
\* token and its quirks; with a root the Fs looks whether the root is a file
NewFsBuild ==
    /\ fsh.pc = "new"
    /\ \E tokenOK \in BOOLEAN, cookiesOK \in BOOLEAN :
         LET f == [fsh EXCEPT !.root = fsh.given, !.features = FilledFeatures(opt.backend),
                              !.precision = IF opt.backend = "azureblob" THEN "Nanosecond"
                                            ELSE "ModTimeNotSupported"]
             t == IF opt.backend = "webdav" /\ opt.tokenCommand /\ tokenOK
                  THEN setBearerToken(f, 1) ELSE f
             q == IF opt.backend = "webdav" THEN setQuirks(t, opt.vendor) ELSE t
         IN fsh' = IF opt.backend = "webdav" /\ opt.tokenCommand /\ ~tokenOK
                   THEN [fsh EXCEPT !.pc = "failed", !.err = Err("token command failed")]
                   ELSE IF opt.backend = "webdav" /\ opt.vendor = "sharepoint" /\ ~cookiesOK
                   THEN [fsh EXCEPT !.pc = "failed", !.err = Err("cookies")]
                   ELSE IF fsh.given = << >> THEN [q EXCEPT !.pc = "built"]
                   ELSE [q EXCEPT !.pc = "probe", !.root = Dir(fsh.given)]
    /\ UNCHANGED <<backendVars, cmd, gen, obj, query>>

\* NewFs after f.NewObject(remote) of the last element of the root
NewFsReturn ==
    /\ fsh.pc = "probe"
    /\ \E e \in {Nil, Err("ErrorObjectNotFound"), Err("ErrorNotAFile"), Err("http403"),
                 Wrap(Err("ErrorObjectNotFound"), "read metadata failed")} :
         fsh' = IF e = Nil THEN [fsh EXCEPT !.pc = "built", !.err = Err("ErrorIsFile")]
                ELSE IF KeepsRoot(e) THEN [fsh EXCEPT !.pc = "built", !.root = fsh.given]
                ELSE [fsh EXCEPT !.pc = "failed", !.err = e]
    /\ UNCHANGED <<backendVars, cmd, gen, obj, query>>

\* what the service answers to the requests of an operation
HandleAnswers == {"ok", "http401", "http404", "http503", "ContainerBeingDeleted"}

\* variant: NewObject points the Fs at the parent of its root, as the probe of
\* NewFs does, and every operation leaves the rest alone
HandleAfterProbing(h, o, a) ==
    IF o = "NewObject" /\ a = "ok" THEN [h EXCEPT !.root = Dir(h.root)] ELSE h

\* the fields of the Fs an operation writes: azureblob keeps what it knows of
\* the container, webdav takes a new bearer token on 401
HandleAfter(h, o, a) ==
    IF opt.backend = "azureblob"
    THEN CASE o \in {"Mkdir", "Put", "Copy"} /\ ~h.containerOK /\ a = "ok" ->
                [h EXCEPT !.containerOK = TRUE, !.containerDeleted = FALSE]
           [] o \in {"Mkdir", "Put", "Copy"} /\ ~h.containerOK /\ a = "ContainerBeingDeleted" ->
                [h EXCEPT !.containerDeleted = TRUE]
           [] o \in {"List", "ListR"} /\ a = "ok" ->
                [h EXCEPT !.containerOK = TRUE, !.containerDeleted = FALSE]
           [] o \in {"Rmdir", "Purge"} /\ a = "ok" ->
                [h EXCEPT !.containerOK = FALSE, !.containerDeleted = TRUE]
           [] OTHER -> h
    ELSE IF a = "http401" /\ opt.tokenCommand
    THEN setBearerToken(h, (h.bearerToken % MaxTokens) + 1)
    ELSE h

\* an operation on the Fs that NewFs returned
HandleCall ==
    /\ fsh.pc = "built"
    /\ \E o \in HandleOps(opt.backend), a \in HandleAnswers :
         /\ a = "ContainerBeingDeleted" => opt.backend = "azureblob"
         /\ fsh' = [HandleAfter(fsh, o, a) EXCEPT !.last = [op |-> o, ans |-> a]]
    /\ UNCHANGED <<backendVars, cmd, gen, obj, query>>

\* Name(), Root(), String(), Precision(), Features()
Name(h) == h.name
Root(h) == IF opt.backend = "azureblob" THEN <<"container">> \o h.root ELSE h.root
String(h) ==
    IF opt.backend = "azureblob"
    THEN IF h.root = << >> THEN <<"Azure container", "container">>
         ELSE <<"Azure container", "container", "path">> \o h.root
    ELSE <<"webdav root">> \o h.root
Precision(h) == IF opt.backend = "azureblob" THEN "Nanosecond" ELSE h.precision
Features(h) == h.features

InitHandle ==
    /\ \E b \in {"azureblob", "webdav"}, v \in Vendors, c \in BOOLEAN, r \in {<< >>} \cup NameArgs :
         /\ b = "azureblob" => v = "other" /\ ~c
         /\ opt = [ChunkSize |-> 1, UploadCutoff |-> 1, backend |-> b, vendor |-> v,
                   root |-> r, tokenCommand |-> c]
         /\ fsh = NoHandle(r)
    /\ partLimit = maxTotalParts
    /\ transfers = 1
    /\ svc = NoStore
    /\ op = [p \in Procs |-> "none"]
    /\ up = [p \in Procs |-> UpIdle]
    /\ uploadToken = transfers
    /\ containerOK = FALSE
    /\ containerDeleted = FALSE
    /\ containerOKMu = 0
    /\ pc = [p \in Procs |-> "idle"]
    /\ ret = [p \in Procs |-> Nil]
    /\ gor = [p \in Procs |-> << >>]
    /\ hist = [p \in Procs |-> HistIdle]
    /\ cmd = Unused
    /\ gen = Unused
    /\ obj = Unused
    /\ query = Unused

NextHandle ==
    \/ NewFsBuild
    \/ NewFsReturn
    \/ HandleCall

SpecHandle == InitHandle /\ [][NextHandle]_vars

\* ------------------------------------------------------------------------
\* The encoder, as the generator of its test cases expects it to encode
\* ------------------------------------------------------------------------
MaxRunes == 3

\* the rules of a mask: EncodeZero is 0 and part of every mask
EncoderRules == {"EncodeSlash", "EncodeLeftSpace", "EncodeRightSpace",
                 "EncodeLeftPeriod", "EncodeRightPeriod"}

\* allMappings: the runes a rule replaces wherever they stand
allMappings ==
    { [mask |-> "EncodeZero", src |-> "NUL", dst |-> "SymbolNUL"],
      [mask |-> "EncodeSlash", src |-> "/", dst |-> "FullwidthSlash"] }

\* allEdges: the runes a rule replaces at one end of the string
allEdges ==
    { [mask |-> "EncodeLeftSpace", edge |-> "edgeLeft", orig |-> " ", replace |-> "SymbolSP"],
      [mask |-> "EncodeLeftPeriod", edge |-> "edgeLeft", orig |-> ".", replace |-> "FullwidthPeriod"],
      [mask |-> "EncodeRightSpace", edge |-> "edgeRight", orig |-> " ", replace |-> "SymbolSP"],
      [mask |-> "EncodeRightPeriod", edge |-> "edgeRight", orig |-> ".", replace |-> "FullwidthPeriod"] }

QuoteRune == "QuoteRune"

\* the runes of the fill sets: printables, encodables and their stand-ins
FillRunes == {"a", "/", "FullwidthSlash", " ", "SymbolSP", ".", "FullwidthPeriod", "NUL",
              "SymbolNUL"}

\* the mappings and the edges in force under a mask
Mappings(mask) == {x \in allMappings : x.mask = "EncodeZero" \/ x.mask \in mask}
Edges(mask) == {e \in allEdges : e.mask \in mask}

\* variant: a rune that is a stand-in is written as any other rune
IsEncodedNever(r, mask) == FALSE

\* runePos(r, m.dst) # -1 for a mapping in force
IsEncoded(r, mask) == \E x \in Mappings(mask) : x.dst = r

\* the rune written for r and whether QuoteRune goes before it: the loop of
\* buildTestString over the mappings
MapRune(r, mask) ==
    IF \E x \in Mappings(mask) : x.src = r
    THEN [out |-> (CHOOSE x \in Mappings(mask) : x.src = r).dst, quote |-> FALSE]
    ELSE IF IsEncoded(r, mask) THEN [out |-> r, quote |-> TRUE]
    ELSE [out |-> r, quote |-> FALSE]

\* fixEdges at position i of rIn: what the edges in force make of the rune
fixEdges(rIn, i, c, mask) ==
    LET at(e) == (e.edge = "edgeLeft" /\ i = 1) \/ (e.edge = "edgeRight" /\ i = Len(rIn))
    IN IF \E e \in Edges(mask) : at(e) /\ rIn[i] = e.orig
       THEN [out |-> (CHOOSE e \in Edges(mask) : at(e) /\ rIn[i] = e.orig).replace,
             quote |-> FALSE]
       ELSE IF \E e \in Edges(mask) : at(e) /\ rIn[i] = e.replace
       THEN [c EXCEPT !.quote = TRUE]
       ELSE c

\* rOut and quoteOut of the test string rIn
Expected(rIn, mask) == [i \in 1..Len(rIn) |-> fixEdges(rIn, i, MapRune(rIn[i], mask), mask)]

\* quotedToString: QuoteRune before each rune that is quoted
RECURSIVE quotedToString(_)
quotedToString(cells) ==
    IF cells = << >> THEN << >>
    ELSE (IF Head(cells).quote THEN <<QuoteRune>> ELSE << >>) \o <<Head(cells).out>>
         \o quotedToString(Tail(cells))

\* the encoding the generator expects of string in under the mask
Encode(in, mask) == quotedToString(Expected(in, mask))

\* decoding: a rune after QuoteRune stands for itself, a stand-in of a rule
\* in force for the rune it replaces, at the ends those of the edges as well
RECURSIVE DecodeFrom(_, _, _)
DecodeFrom(t, i, mask) ==
    IF i > Len(t) THEN << >>
    ELSE IF t[i] = QuoteRune /\ i < Len(t) THEN <<t[i + 1]>> \o DecodeFrom(t, i + 2, mask)
    ELSE LET r == t[i]
             edges == {e \in Edges(mask) : /\ e.replace = r
                                           /\ \/ e.edge = "edgeLeft" /\ i = 1
                                              \/ e.edge = "edgeRight" /\ i = Len(t)}
         IN <<IF \E x \in Mappings(mask) : x.dst = r
              THEN (CHOOSE x \in Mappings(mask) : x.dst = r).src
              ELSE IF edges # {} THEN (CHOOSE e \in edges : TRUE).orig
              ELSE r>> \o DecodeFrom(t, i + 1, mask)
Decode(t, mask) == DecodeFrom(t, 1, mask)

\* the strings of one to MaxRunes fill runes
TestStrings == UNION {[1..n -> FillRunes] : n \in 1..MaxRunes}

\* one test case is built: the input and the output expected of Encode
buildTestString ==
    /\ query.pc = "in"
    /\ query' = [query EXCEPT !.pc = "out", !.out = Encode(query.in, query.mask)]
    /\ UNCHANGED <<backendVars, cmd, gen, obj, fsh>>

\* the test decodes the output under the same mask
CallDecode ==
    /\ query.pc = "out"
    /\ query' = [query EXCEPT !.pc = "back", !.back = Decode(query.out, query.mask)]
    /\ UNCHANGED <<backendVars, cmd, gen, obj, fsh>>

InitEncode ==
    /\ InitIdleFs
    /\ \E s \in TestStrings, k \in SUBSET EncoderRules :
         query = [pc |-> "in", in |-> s, mask |-> k, out |-> << >>, back |-> << >>]
    /\ cmd = Unused
    /\ gen = Unused
    /\ obj = Unused
    /\ fsh = Unused

NextEncode == buildTestString \/ CallDecode

SpecEncode == InitEncode /\ [][NextEncode]_vars

\* ------------------------------------------------------------------------
\* hash.Set: a bitmask over the hash families
\* ------------------------------------------------------------------------
\* hash.Supported: every family
Supported == Pow2(Len(HashNames)) - 1
HashSets == 0..Supported
Families == {HashType(HashNames[k]) : k \in 1..Len(HashNames)}

\* int(h) & int(c), bit by bit
RECURSIVE BitAnd(_, _)
BitAnd(a, b) ==
    IF a = 0 \/ b = 0 THEN 0
    ELSE (IF a % 2 = 1 /\ b % 2 = 1 THEN 1 ELSE 0) + 2 * BitAnd(a \div 2, b \div 2)

\* int(h) | int(c)
BitOr(a, b) == a + b - BitAnd(a, b)

\* variant: Overlap that joins the two sets
OverlapJoined(h, c) == BitOr(h, c)

\* hash.Set.Overlap, Add, SubsetOf, Count
Overlap(h, c) == BitAnd(h, c)
Add(h, t) == BitOr(h, t)
SubsetOf(h, c) == BitOr(h, c) = c
RECURSIVE Count(_)
Count(h) == IF h = 0 THEN 0 ELSE (h % 2) + Count(h \div 2)

\* the test of the set operations on two sets and one family
CallHashSet ==
    /\ query.pc = "sets"
    /\ query' = [query EXCEPT !.pc = "done", !.ol = Overlap(query.s, query.t),
                              !.added = Add(query.s, query.h)]
    /\ UNCHANGED <<backendVars, cmd, gen, obj, fsh>>

InitHashSet ==
    /\ InitIdleFs
    /\ \E s \in HashSets, t \in HashSets, h \in Families :
         query = [pc |-> "sets", s |-> s, t |-> t, h |-> h, ol |-> 0, added |-> 0]
    /\ cmd = Unused
    /\ gen = Unused
    /\ obj = Unused
    /\ fsh = Unused

NextHashSet == CallHashSet

SpecHashSet == InitHashSet /\ [][NextHashSet]_vars

\* ------------------------------------------------------------------------
\* hash.MultiHasher, hash.Stream and hash.StreamTypes
\* ------------------------------------------------------------------------
MaxWrite == 5

\* hashTestSet: two inputs and the sums of every family
hashTestSet ==
    << [input |-> [i \in 1..14 |-> i],
        output |-> [MD5 |-> "bf13fc19e5151ac57d4252e0e0f87abe",
                    SHA1 |-> "3ab6543c08a75f292a5ecedac87ec41642d12166",
                    Dropbox |-> "214d2fcf3566e94c99ad2f59bd993daca46d8521a0c447adf4b324f53fddc0c7",
                    QuickXorHash |-> "0110c000085000031c0001095ec00218d0000700",
                    Whirlpool |-> "eddf52133d4566d763f716e853d6e4efbabd29e2c2e63f56747b1596172851d34c2df9944beb6640dbdbe3d9b4eb61180720a79e3d15baff31c91e43d63869a4",
                    CRC32 |-> "a6041d7e",
                    Mailru |-> "0102030405060708090a0b0c0d0e000000000000"]],
       [input |-> << >>,
        output |-> [MD5 |-> "d41d8cd98f00b204e9800998ecf8427e",
                    SHA1 |-> "da39a3ee5e6b4b0d3255bfef95601890afd80709",
                    Dropbox |-> "e3b0c44298fc1c149afbf4c8996fb92427ae41e4649b934ca495991b7852b855",
                    QuickXorHash |-> "0000000000000000000000000000000000000000",
                    Whirlpool |-> "19fa61d75522a4669b44e39c1d2e1726c530232130d407f89afee0964997f7a73e83be698b288febcf88e3e03c4f0757ea8964e59b63d93708b138cc42a66eb3",
                    CRC32 |-> "00000000",
                    Mailru |-> "0000000000000000000000000000000000000000"]] >>

\* the names of the families a set holds
NamesIn(set) == {HashNames[k] : k \in {j \in 1..Len(HashNames) : Contains(set, Pow2(j - 1))}}

\* the sum a hasher of the family gives of the bytes written to it
Sum(name, bytes) ==
    IF \E k \in 1..Len(hashTestSet) : hashTestSet[k].input = bytes
    THEN hashTestSet[CHOOSE k \in 1..Len(hashTestSet) : hashTestSet[k].input = bytes].output[name]
    ELSE "sum of other bytes"

\* fromTypes: one hasher for each family of the set, nothing written
fromTypes(set) == [name \in NamesIn(set) |-> << >>]

\* variant: a write that reaches one hasher only
WriteOne(hashers, p) ==
    [name \in DOMAIN hashers |->
        IF name = (CHOOSE x \in DOMAIN hashers : TRUE) THEN hashers[name] \o p
        ELSE hashers[name]]

\* MultiHasher.Write: the bytes go to every hasher
MultiWrite(hashers, p) == [name \in DOMAIN hashers |-> hashers[name] \o p]

\* MultiHasher.Sums and the sums of StreamTypes
Sums(hashers) == [name \in DOMAIN hashers |-> Sum(name, hashers[name])]

\* hash.StreamTypes(r, set): the hashers of the set, io.Copy, the sums
StreamTypes(input, set) == Sums(MultiWrite(fromTypes(set), input))

\* hash.NewMultiHasherTypes(set), hash.NewMultiHasher() for all families
NewMultiHasherTypes ==
    /\ query.pc = "new"
    /\ query' = [query EXCEPT !.pc = "copy", !.h = fromTypes(query.set)]
    /\ UNCHANGED <<backendVars, cmd, gen, obj, fsh>>

\* io.Copy(mh, input): one Write of the next bytes of the input
CopyWrite ==
    /\ query.pc = "copy"
    /\ \E k \in 1..MaxWrite :
         /\ query.n + k <= Len(query.input)
         /\ query' = [query EXCEPT !.n = @ + k,
                         !.h = MultiWrite(@, SubSeq(query.input, query.n + 1, query.n + k))]
    /\ UNCHANGED <<backendVars, cmd, gen, obj, fsh>>

\* the input is at its end: mh.Sums()
CallSums ==
    /\ query.pc = "copy"
    /\ query.n = Len(query.input)
    /\ query' = [query EXCEPT !.pc = "sums", !.sums = Sums(query.h)]
    /\ UNCHANGED <<backendVars, cmd, gen, obj, fsh>>

\* hash.StreamTypes of the same input and set, hash.Stream for all families
CallStream ==
    /\ query.pc = "sums"
    /\ query' = [query EXCEPT !.pc = "done", !.stream = StreamTypes(query.input, query.set)]
    /\ UNCHANGED <<backendVars, cmd, gen, obj, fsh>>

InitHasher ==
    /\ InitIdleFs
    /\ \E k \in 1..Len(hashTestSet), s \in Families \cup {Supported} :
         query = [pc |-> "new", test |-> k, input |-> hashTestSet[k].input, set |-> s, n |-> 0,
                  h |-> fromTypes(0), sums |-> fromTypes(0), stream |-> fromTypes(0)]
    /\ cmd = Unused
    /\ gen = Unused
    /\ obj = Unused
    /\ fsh = Unused

NextHasher == NewMultiHasherTypes \/ CopyWrite \/ CallSums \/ CallStream

SpecHasher == InitHasher /\ [][NextHasher]_vars

\* ------------------------------------------------------------------------
\* hash.Set.Array and hash.Set.String
\* ------------------------------------------------------------------------
MaxAdded == 4

\* hash.Type.String
TypeString(t) ==
    CASE t = HashType("MD5") -> "MD5"
      [] t = HashType("SHA1") -> "SHA-1"
      [] t = HashType("CRC32") -> "CRC-32"
      [] t = HashType("Dropbox") -> "DropboxHash"
      [] t = HashType("QuickXorHash") -> "QuickXorHash"
      [] t = HashType("Whirlpool") -> "Whirlpool"
      [] t = HashType("Mailru") -> "MailruHash"
      [] t = HashType("None") -> "None"
      [] OTHER -> "Unknown"

\* hash.NewHashSet(t...): Add of each type in the order given
RECURSIVE NewHashSetFrom(_)
NewHashSetFrom(ts) ==
    IF ts = << >> THEN 0
    ELSE Add(NewHashSetFrom(SubSeq(ts, 1, Len(ts) - 1)), HashType(ts[Len(ts)]))

\* variant: the types of the set from the highest bit down
RECURSIVE TypesDown(_, _)
TypesDown(v, bit) ==
    IF v = 0 THEN << >>
    ELSE TypesDown(v \div 2, 2 * bit) \o (IF v % 2 = 1 THEN <<bit>> ELSE << >>)
ArrayDown(h) == TypesDown(h, 1)

\* hash.Set.Array: the types of the set from the lowest bit up
RECURSIVE TypesUp(_, _)
TypesUp(v, bit) ==
    IF v = 0 THEN << >>
    ELSE (IF v % 2 = 1 THEN <<bit>> ELSE << >>) \o TypesUp(v \div 2, 2 * bit)
Array(h) == TypesUp(h, 1)

\* strings.Join(a, ", ")
RECURSIVE Join(_)
Join(a) ==
    IF a = << >> THEN ""
    ELSE IF Len(a) = 1 THEN a[1]
    ELSE a[1] \o ", " \o Join(Tail(a))

\* hash.Set.String
SetString(h) == "[" \o Join([i \in 1..Len(Array(h)) |-> TypeString(Array(h)[i])]) \o "]"

\* the families in every order of adding, none twice
AddOrders ==
    UNION {{s \in [1..n -> {HashNames[k] : k \in 1..Len(HashNames)}] :
               \A i, j \in 1..n : i # j => s[i] # s[j]} : n \in 0..MaxAdded}

\* h := hash.NewHashSet(...); h.Array(); h.String()
CallArray ==
    /\ query.pc = "order"
    /\ LET h == NewHashSetFrom(query.order)
       IN query' = [query EXCEPT !.pc = "done", !.set = h, !.array = Array(h),
                                 !.string = SetString(h)]
    /\ UNCHANGED <<backendVars, cmd, gen, obj, fsh>>

InitArray ==
    /\ InitIdleFs
    /\ \E s \in AddOrders :
         query = [pc |-> "order", order |-> s, set |-> 0, array |-> << >>, string |-> ""]
    /\ cmd = Unused
    /\ gen = Unused
    /\ obj = Unused
    /\ fsh = Unused

NextArray == CallArray

SpecArray == InitArray /\ [][NextArray]_vars

\* ------------------------------------------------------------------------
\* Properties
\* ------------------------------------------------------------------------
\* C1: when reading a chunk failed, or a part's StageBlock failed after its
\* retries, uploadMultipart never calls CommitBlockList and returns an error
NoPartialCommit ==
    \A p \in Procs :
        (hist[p].readFailed \/ hist[p].stageFailed) =>
            /\ hist[p].commitCalls = 0
            /\ (pc[p] = "upd_after" => up[p].uerr # Nil)

\* C2: the part uploads in flight on the Fs never exceed fs.Config.Transfers
TokensBoundInFlight ==
    /\ InFlight <= transfers
    /\ uploadToken = transfers - InFlight

\* two Updates at once: one has a part in flight with the last token, the
\* other waits in uploadToken.Get()
TokensExhausted ==
    \E p, q \in Procs :
        /\ p # q
        /\ Running(p) # {}
        /\ pc[q] = "um_spawn"
        /\ uploadToken = 0
        /\ InFlight = transfers

\* C3 (as claimed): CommitBlockList is called at most once per upload, only
\* after every StageBlock call has returned, and no part is staged after it
CommitAtMostOnce ==
    \A p \in Procs :
        /\ hist[p].commitCalls <= 1
        /\ ~hist[p].earlyCommit
        /\ ~hist[p].lateStage

\* C3 (amended): CommitBlockList is called only after every StageBlock call
\* has returned, no part is staged after it, it succeeds at most once, and it
\* is called again only after an attempt that shouldRetry accepts, at most
\* Retries times in all
CommitAfterAllParts ==
    \A p \in Procs :
        /\ hist[p].commitCalls <= Retries
        /\ hist[p].commitOK <= 1
        /\ (hist[p].commitOK = 1 => pc[p] # "um_commit")
        /\ (hist[p].commitCalls > 0 => Running(p) = {})
        /\ ~hist[p].earlyCommit
        /\ ~hist[p].lateStage

\* an upload of two parts whose commit was retried and then succeeded
CommitRetried ==
    \E p \in Procs :
        /\ hist[p].commitCalls = 2
        /\ hist[p].commitOK = 1
        /\ Len(gor[p]) = 2

\* C4: the chunk size is ChunkSize*2^k for the smallest k whose part count
\* is below the limit, a committed upload has exactly that many parts, and
\* when that chunk size exceeds maxChunkSize the upload fails before any
\* block is staged
Fits(sz, chunk, limit) == (sz + chunk - 1) \div chunk < limit
SmallestK(sz, chunk, limit) ==
    CHOOSE k \in 0..24 : /\ Fits(sz, chunk * Pow2(k), limit)
                         /\ \A j \in 0..(k - 1) : ~Fits(sz, chunk * Pow2(j), limit)
Calculated(p) == up[p].path = "multipart"
ChunkSizeIsSmallestDoubling ==
    \A p \in Procs :
        Calculated(p) =>
            LET want == opt.ChunkSize * Pow2(SmallestK(up[p].size, opt.ChunkSize, partLimit))
            IN IF want > maxChunkSize
               THEN /\ up[p].uerr # Nil
                    /\ ~hist[p].staged
                    /\ gor[p] = << >>
               ELSE /\ up[p].chunkSize = want
                    /\ up[p].totalParts = (up[p].size + want - 1) \div want
                    /\ Len(gor[p]) <= up[p].totalParts
                    /\ (hist[p].commitOK = 1 => Len(gor[p]) = up[p].totalParts)
                    /\ (up[p].size = 600 /\ opt.ChunkSize = 4 /\ partLimit = 50000
                            => up[p].totalParts = 150)
                    /\ (up[p].size = 600 /\ opt.ChunkSize = 4 /\ partLimit = 100
                            => up[p].chunkSize = 8 /\ up[p].totalParts = 75)

\* 600 MiB at 4 MiB against a limit of 100: committed after 75 parts of 8 MiB
ChunkDoubledAndUploaded ==
    \E p \in Procs :
        /\ up[p].size = 600 /\ opt.ChunkSize = 4 /\ partLimit = ScenarioParts
        /\ up[p].chunkSize = 8
        /\ Len(gor[p]) = 75
        /\ hist[p].commitOK = 1

\* C5: the chunked path is taken exactly when src.Size() >= UploadCutoff, the
\* single request in every other case, and Content-MD5 goes with the single
\* request only
PathFollowsCutoff ==
    \A p \in Procs :
        /\ (up[p].path = "multipart" => up[p].size >= opt.UploadCutoff)
        /\ (up[p].path = "single" => up[p].size < opt.UploadCutoff)
        /\ (up[p].md5sent => up[p].path # "multipart" /\ up[p].size < opt.UploadCutoff)
        /\ (up[p].path = "multipart" => ~up[p].md5sent)

\* both paths taken on one Fs: a blob of exactly UploadCutoff in chunks, and
\* a stream of unknown size with an MD5 in one request
BothPathsTaken ==
    \E p, q \in Procs :
        /\ up[p].path = "multipart" /\ up[p].size = opt.UploadCutoff
        /\ up[q].path = "single" /\ up[q].size = -1 /\ up[q].md5sent

\* C6: at most one Create request is in flight on the Fs; while the Fs has
\* seen the container exist and has not deleted it, no Mkdir starts a Create
\* and every Mkdir returns nil
MkdirSerializedMemoized ==
    /\ Cardinality({p \in Procs : pc[p] = "mkdir_create"}) <= 1
    /\ \A p \in Procs : pc[p] = "mkdir_create" => containerOKMu = p /\ ~Known
    /\ \A p \in Procs : ~hist[p].badCreate
    /\ Known => containerOK
    /\ \A p \in Procs :
         op[p] = "Mkdir" /\ pc[p] = "done" /\ hist[p].memo
             => ret[p] = Nil /\ hist[p].creates = 0

\* a listing by one caller succeeded, and the Mkdir of another then returned
\* nil without a Create request
MkdirMemoAfterList ==
    \E p, q \in Procs :
        /\ p # q
        /\ op[p] = "List" /\ pc[p] = "done" /\ ret[p] = Nil
        /\ op[q] = "Mkdir" /\ pc[q] = "done" /\ ret[q] = Nil
        /\ hist[q].memo /\ hist[q].creates = 0

\* C8 (as claimed): Rmdir of a directory with an entry returns
\* ErrorDirectoryNotEmpty and issues no delete request
RmdirNonEmptyRefused ==
    \A p \in Procs :
        op[p] = "Rmdir" /\ hist[p].hadEntry =>
            /\ hist[p].deletes = 0
            /\ (pc[p] = "done" => ret[p] = Err("ErrorDirectoryNotEmpty"))

\* C8 (amended): Rmdir of a directory with an entry issues no delete request
\* and never returns nil: it returns ErrorDirectoryNotEmpty when its listing
\* is answered, and the error of the listing when that fails
RmdirNonEmptyKeeps ==
    \A p \in Procs :
        op[p] = "Rmdir" /\ hist[p].hadEntry =>
            /\ hist[p].deletes = 0
            /\ pc[p] # "delc_lock" /\ pc[p] # "delc_req" /\ pc[p] # "wd_delete"
            /\ (pc[p] = "done" =>
                  /\ ret[p] # Nil
                  /\ (up[p].ans = "ok" => ret[p] = Err("ErrorDirectoryNotEmpty"))
                  /\ (up[p].ans # "ok" => ret[p].cause = up[p].ans))

\* Rmdir of a sub-directory that holds a file was refused
RmdirRefused ==
    \E p \in Procs :
        /\ op[p] = "Rmdir" /\ pc[p] = "done"
        /\ up[p].arg # << >>
        /\ hist[p].hadEntry
        /\ ret[p] = Err("ErrorDirectoryNotEmpty")

\* C9: List of a directory that is missing on the remote never returns nil,
\* and returns ErrorDirNotFound when the listing is answered
ListMissingIsError ==
    \A p \in Procs :
        op[p] = "List" /\ pc[p] = "done" /\ hist[p].missing =>
            /\ ret[p] # Nil
            /\ (up[p].ans \in {"ok", "http404", "ContainerNotFound", "none"}
                    => ret[p] = Err("ErrorDirNotFound"))

\* List of a missing container, and of a missing webdav directory, returned
\* ErrorDirNotFound
ListMissingFound ==
    \E p \in Procs :
        /\ op[p] = "List" /\ pc[p] = "done" /\ hist[p].missing
        /\ ret[p] = Err("ErrorDirNotFound")

\* what the service says when nothing is stored at the path
NotFoundAnswers ==
    IF opt.backend = "azureblob" THEN {"BlobNotFound", "http404", "ContainerNotFound"}
    ELSE {"http404", "http301", "empty", "badstatus"}
FoundAnswers == {"ok", "file"}
FailedAnswers == {"http503", "http403"}

\* C7: NewFs probes a root that is not empty (webdav: and has no trailing
\* slash).  A probe that finds an object gives the Fs at the parent with
\* ErrorIsFile; one that reports ErrorObjectNotFound (webdav: or
\* ErrorNotAFile) gives the Fs at the root as given with nil; any other
\* probe error gives no Fs and that error
NewFsProbe ==
    \A p \in Procs :
        op[p] = "NewFs" /\ pc[p] = "done" =>
            LET d == up[p].arg
                a == up[p].ans
            IN IF d = << >> \/ (opt.backend = "webdav" /\ up[p].slash)
               THEN /\ hist[p].requests = 0
                    /\ up[p].hasFs /\ up[p].root = d /\ ret[p] = Nil
               ELSE /\ hist[p].requests >= 1
                    /\ (a \in FoundAnswers
                          => up[p].hasFs /\ up[p].root = Dir(d) /\ ret[p] = Err("ErrorIsFile"))
                    /\ (a \in NotFoundAnswers \/ a = "collection"
                          => up[p].hasFs /\ up[p].root = d /\ ret[p] = Nil)
                    /\ (a \in FailedAnswers
                          => ~up[p].hasFs /\ ret[p] # Nil /\ ret[p].cause = a)
                    /\ (ret[p] = Err("ErrorIsFile") => ~hist[p].missing)

\* NewFs of a/b, where b is a file in a: the Fs is at a, with ErrorIsFile
NewFsOnFile ==
    \E p \in Procs :
        /\ op[p] = "NewFs" /\ pc[p] = "done"
        /\ up[p].arg = <<"a", "b">>
        /\ up[p].hasFs /\ up[p].root = <<"a">>
        /\ ret[p] = Err("ErrorIsFile")

\* what NewObject returns for the answer its lookup ended with
NewObjectAnswered(p) ==
    pc[p] = "done" =>
        /\ (up[p].ans \in NotFoundAnswers
              => ret[p] = Err("ErrorObjectNotFound") /\ ~up[p].hasObj)
        /\ (up[p].ans = "collection" => ret[p] = Err("ErrorNotAFile") /\ ~up[p].hasObj)
        /\ (hist[p].missing /\ up[p].ans \notin FailedAnswers
              => ret[p] = Err("ErrorObjectNotFound"))
        /\ (up[p].hasObj => ret[p] = Nil /\ ~hist[p].missing)

\* C10 (as claimed): NewObject returns ErrorObjectNotFound and no Object when
\* nothing is stored at remote, webdav ErrorNotAFile for a collection, and a
\* lookup issues at most two PROPFIND requests
NewObjectTwoRequests ==
    \A p \in Procs :
        op[p] = "NewObject" => NewObjectAnswered(p) /\ hist[p].requests <= 2

\* C10 (amended): NewObject returns ErrorObjectNotFound and no Object when
\* nothing is stored at remote, webdav ErrorNotAFile for a collection; the
\* lookup is made once, and once more with depth 0 only on sharepoint after a
\* 404, and each of the two may be repeated by the pacer
NewObjectNotFound ==
    \A p \in Procs :
        op[p] = "NewObject" =>
            /\ NewObjectAnswered(p)
            /\ hist[p].lookups <= 2
            /\ (hist[p].lookups = 2 => opt.vendor = "sharepoint")
            /\ hist[p].requests <= Retries * (IF opt.vendor = "sharepoint" THEN 2 ELSE 1)
            /\ (up[p].depth = "0" => opt.vendor = "sharepoint" /\ hist[p].lookups = 1)

\* sharepoint, nothing stored: 404, then with depth 0 a 503 and a 404
NewObjectZeroDepth ==
    \E p \in Procs :
        /\ op[p] = "NewObject" /\ pc[p] = "done"
        /\ hist[p].missing
        /\ hist[p].lookups = 2 /\ hist[p].requests = 3
        /\ ret[p] = Err("ErrorObjectNotFound")

\* the directory of a Mkdir was there when the call began: the container on
\* azureblob, the collection on webdav
ExistedBefore(p) ==
    IF opt.backend = "azureblob" THEN hist[p].before.container = "present"
    ELSE filePath(p) \in hist[p].before.dirs

PutAfterParents ==
    \A p \in Procs :
        op[p] = "Update" =>
            /\ (hist[p].puts > 0 => hist[p].parentNil /\ up[p].stack = << >>)
            /\ (pc[p] = "wd_put" => hist[p].parentNil /\ up[p].stack = << >>)
            /\ (pc[p] = "wd_mkdir" => hist[p].puts = 0)
            /\ (hist[p].parentErr =>
                  /\ hist[p].puts = 0
                  /\ pc[p] = "done"
                  /\ ret[p] # Nil
                  /\ ret[p].wrap = "Update mkParentDir failed")
            /\ hist[p].puts <= 1

\* Update of a/a/b on an Fs at a, where only the root of the server was
\* there: a and a/a were made, then the PUT stored the object
PutMadeParents ==
    \E p \in Procs :
        /\ op[p] = "Update" /\ opt.root = <<"a">> /\ up[p].arg = <<"a", "b">>
        /\ hist[p].before.dirs = {<< >>}
        /\ hist[p].puts = 1
        /\ {<<"a">>, <<"a", "a">>} \subseteq svc.dirs
        /\ <<"a", "a", "b">> \in svc.files

\* Update whose parent could not be made returned without a PUT
PutRefused ==
    \E p \in Procs :
        /\ op[p] = "Update" /\ pc[p] = "done"
        /\ hist[p].parentErr /\ hist[p].puts = 0
        /\ ret[p] = Wrap(Err("http403"), "Update mkParentDir failed")

\* the condition under which the claim lets another attempt start
MayTryAgain(d) ==
    d.retry /\ d.try < cmd.Retries /\ d.errored /\ ~d.fatal /\ d.retryable

\* C13: cmd.Run starts attempt k+1 only if Retry is set, k < Retries, attempt
\* k left an error counted, no fatal error was counted and a counted error is
\* retryable; in every other case attempt k is the last
RetryOnlyRetryable ==
    cmd.pc \in {"Run", "RunEnd", "done"} =>
        /\ cmd.calls <= cmd.Retries
        /\ cmd.calls = cmd.dec.try
        /\ (cmd.dec.try > 0 => (cmd.dec.again <=> MayTryAgain(cmd.dec)))
        /\ (cmd.pc = "Run" /\ cmd.try <= cmd.Retries /\ cmd.try > 1 =>
                /\ cmd.dec.try = cmd.try - 1
                /\ MayTryAgain(cmd.dec)
                /\ ~Errored(cmd.stats))
        /\ (cmd.dec.try > 0 /\ ~MayTryAgain(cmd.dec) =>
                cmd.pc # "Run" \/ cmd.try > cmd.Retries)

\* three attempts were made, and the third left a fatal error
ThreeAttempts ==
    /\ cmd.pc = "done"
    /\ cmd.calls = 3
    /\ cmd.dec.try = 3 /\ cmd.dec.fatal /\ cmd.dec.retryable

\* lib/exitcode, as the specification lists the codes
exitcode ==
    [Success |-> 0, UncategorizedError |-> 1, UsageError |-> 2, DirNotFound |-> 3,
     FileNotFound |-> 4, RetryError |-> 5, NoRetryError |-> 6, FatalError |-> 7,
     TransferExceeded |-> 8, NoFilesTransferred |-> 9]

\* the rules of the claim in their order, and the code of the first that
\* matches
RuleMatches(e) ==
    << Is(e, "ErrorDirNotFound"), Is(e, "ErrorObjectNotFound"),
       Is(e, "ErrorMaxTransferLimitReached"), Is(e, "ErrorMaxDurationReached"),
       e.retry, e.noRetry \/ e.noLowLevel, e.fatal,
       e.is \cap {"errorCommandNotFound", "errorNotEnoughArguments",
                  "errorTooManyArguments"} # {} >>
RuleCodes ==
    << "DirNotFound", "FileNotFound", "TransferExceeded", "DurationExceeded",
       "RetryError", "NoRetryError", "FatalError", "UsageError" >>
FirstRule(e) ==
    IF \E i \in 1..8 : RuleMatches(e)[i]
    THEN RuleCodes[CHOOSE i \in 1..8 :
                       RuleMatches(e)[i] /\ \A j \in 1..(i - 1) : ~RuleMatches(e)[j]]
    ELSE "UncategorizedError"

\* C14: resolveExitCode reports, for an error, the exit code of the first
\* rule that matches it (3 dir not found, 4 object not found, 8 transfer
\* limit, DurationExceeded, 5 retry, 6 no retry, 7 fatal, 2 usage, else 1),
\* and Run resolves the error its function returned in the last attempt, or
\* the last error of the accounting when that is nil
ExitCodeByFirstRule ==
    /\ (cmd.resolved.by # "none" /\ ~cmd.resolved.err.nil =>
          /\ Len(cmd.resolved.out) = 1
          /\ cmd.resolved.out[1].code = FirstRule(cmd.resolved.err)
          /\ (cmd.resolved.out[1].code # "DurationExceeded" =>
                exitcode[cmd.resolved.out[1].code] \in 1..8)
          /\ (Is(cmd.resolved.err, "ErrorDirNotFound") =>
                exitcode[cmd.resolved.out[1].code] = 3))
    /\ (cmd.resolved.by = "Run" =>
          cmd.resolved.err = IF cmd.calls > 0 /\ ~cmd.ferr.nil THEN cmd.ferr
                             ELSE GetLastError(cmd.stats))
    /\ (cmd.resolved.by = "CheckArgs" =>
          cmd.resolved.out[1].code = "UsageError" /\ exitcode["UsageError"] = 2)

\* the function returned an error that is retryable and fatal: code 5; and
\* before that the usage error of CheckArgs was not the one resolved by Run
ResolvedRetryBeforeFatal ==
    /\ cmd.pc = "done"
    /\ cmd.resolved.by = "Run"
    /\ cmd.resolved.err = RunErr({}, TRUE, FALSE, TRUE)
    /\ cmd.resolved.out[1].code = "RetryError"

\* C15: a run that ends with no error reports exactly one exit code: 0, or 9
\* when ErrorOnNoTransfer is set and nothing was transferred
SuccessExitCode ==
    cmd.resolved.by # "none" /\ cmd.resolved.err.nil =>
        /\ Len(cmd.resolved.out) = 1
        /\ cmd.resolved.out[1].code =
              IF cmd.ErrorOnNoTransfer /\ cmd.resolved.transfers = 0
              THEN "NoFilesTransferred" ELSE "Success"

\* a run without error and with a transfer was resolved
ResolvedNoError ==
    /\ cmd.pc = "done"
    /\ cmd.resolved.by = "Run" /\ cmd.resolved.err.nil
    /\ cmd.resolved.transfers = 1
    /\ cmd.calls = 1

\* the usage errors printed so far
UsageLines == {i \in 1..Len(cmd.out) : cmd.out[i].code = "UsageError"}

\* C16: with fewer than MinArgs or more than MaxArgs arguments CheckArgs
\* reports a usage error once and the command ends: no Fs is made and the
\* function given to cmd.Run is never called
BadArgsTerminate ==
    (cmd.nargs < MinArgs \/ cmd.nargs > MaxArgs) /\ cmd.pc # "CheckArgs" =>
        /\ cmd.usage = 1
        /\ Cardinality(UsageLines) = 1
        /\ ~cmd.fsMade
        /\ cmd.calls = 0
        /\ cmd.pc \notin {"Run", "RunEnd", "panic"}

\* copyurl with three arguments: CheckArgs reported the usage error
BadArgsReported ==
    /\ cmd.nargs = 3
    /\ cmd.pc = "RunE"
    /\ cmd.usage = 1
    /\ cmd.out = <<[line |-> "session", code |-> "UsageError"]>>

\* the combination is O_RDONLY with O_TRUNC
ReadOnlyTrunc(e) == e.flags[1] = "os.O_RDONLY" /\ e.flags[Len(e.flags)] = "os.O_TRUNC"

\* C17: in the open-mode matrix every combination of O_RDONLY with O_TRUNC,
\* with any of O_APPEND, O_CREATE, O_EXCL, O_SYNC, has EINVAL for opening the
\* file that does not exist and the file that exists, and contents "hello";
\* every other combination has the results of Linux
OpenModeMatrix ==
    /\ Len(gen.openTests) = gen.i
    /\ gen.pc = "done" => gen.i = Combinations
    /\ \A k \in 1..Len(gen.openTests) :
         LET e == gen.openTests[k]
             f == flagsOf(k - 1)
         IN /\ e.flags = textMode(f)
            /\ ReadOnlyTrunc(e) <=> f.rw = O_RDONLY /\ "O_TRUNC" \in f.bits
            /\ IF ReadOnlyTrunc(e)
               THEN /\ e.openNonExistentErr = "EINVAL"
                    /\ e.openExistingErr = "EINVAL"
                    /\ e.contents = hello
               ELSE e = gen.linux[k]

\* the table is complete, and Linux had emptied the file that existed for
\* O_RDONLY|O_TRUNC and had created the missing one for O_RDONLY|O_CREATE|O_TRUNC
MatrixOverridden ==
    /\ gen.pc = "done"
    /\ \E k, n \in 1..Len(gen.openTests) :
         /\ gen.openTests[k].flags = <<"os.O_RDONLY", "os.O_TRUNC">>
         /\ gen.linux[k].openNonExistentErr = "ENOENT"
         /\ gen.linux[k].openExistingErr = "nil"
         /\ gen.linux[k].contents = << >>
         /\ gen.openTests[k].contents = hello
         /\ gen.openTests[n].flags = <<"os.O_RDONLY", "os.O_CREATE", "os.O_TRUNC">>
         /\ gen.linux[n].openNonExistentErr = "nil"
         /\ gen.openTests[n].openNonExistentErr = "EINVAL"
    /\ \E k \in 1..Len(gen.openTests) :
         /\ gen.openTests[k].flags = <<"os.O_RDWR">>
         /\ gen.openTests[k].contents = <<"h", "e", "H", "E", "L">>

\* the modification time that was written last is what the service stores
\* and what ModTime returns
RoundTrip ==
    /\ modTimeKey \in DOMAIN obj.blob.meta
    /\ obj.blob.meta[modTimeKey] = Format(obj.t)
    /\ Len(obj.blob.meta[modTimeKey].frac) = fracDigits
    /\ Equal(Parse(obj.blob.meta[modTimeKey]), obj.t)
    /\ (obj.seen.valid => Equal(obj.seen.time, obj.t))
    /\ (obj.reread.valid => Equal(obj.reread.time, obj.t))

\* C18: after a modification time t is written to azureblob by Update or by
\* a successful SetModTime, ModTime returns exactly t on the same Object and
\* on an Object read again from the service, and the value under the mtime
\* key is t with nine digits of nanoseconds and parses back to t
MtimeRoundTrip == obj.written => RoundTrip

\* the same for the times whose zone offset is a whole number of minutes
MtimeRoundTripWholeMinutes == obj.written /\ obj.t.off % 60 = 0 => RoundTrip

\* a time with nanoseconds in a zone east of UTC was set on a blob uploaded
\* before, and was read on the same Object and on one read again
MtimeReadBack ==
    /\ obj.written /\ obj.how = "SetModTime" /\ obj.writes = MaxWrites
    /\ obj.t = Time(90000, 123456789, 3600)
    /\ obj.seen.valid /\ Equal(obj.seen.time, obj.t)
    /\ obj.reread.valid /\ Equal(obj.reread.time, obj.t)
    /\ "other" \in DOMAIN obj.blob.meta

\* shouldRetry has classified a response with status 408, 429 or 5xx
ClaimedRetryable ==
    /\ query.pc = "done" /\ ~query.resp.nil
    /\ query.resp.StatusCode \in {408, 429} \cup (500..599)

HashUnknown(q) ==
    IF q.t = HashType("SHA1") THEN q.o.sha1 = "" ELSE q.o.md5 = ""

\* C20: Object.Hash returns ErrUnsupported exactly for the types that are not
\* in Fs.Hashes(), and the empty string with a nil error for a type in
\* Fs.Hashes() whose value is not known; Hashes is {MD5} on azureblob, and on
\* webdav {MD5, SHA-1} for the vendors with checksums and empty for the others
HashAgreesWithHashes ==
    query.pc = "done" =>
        /\ query.result.err = "ErrUnsupported" <=> ~Contains(query.hashes, query.t)
        /\ (Contains(query.hashes, query.t) /\ HashUnknown(query)
              => query.result = [sum |-> "", err |-> "nil"])
        /\ {t \in HashTypes : Contains(query.hashes, t)} =
              IF query.backend = "azureblob" THEN {HashType("MD5")}
              ELSE IF query.vendor \in {"owncloud", "nextcloud"}
              THEN {HashType("MD5"), HashType("SHA1")}
              ELSE {}

\* nextcloud was asked for the SHA-1 of an Object that has an MD5 only
HashNotKnown ==
    /\ query.pc = "done" /\ query.backend = "webdav" /\ query.vendor = "nextcloud"
    /\ query.t = HashType("SHA1") /\ query.o.sha1 = "" /\ query.o.md5 # ""
    /\ Contains(query.hashes, query.t)
    /\ query.result = [sum |-> "", err |-> "nil"]

\* caller p has returned from a call whose source was of another backend
ForeignDone(p) ==
    /\ op[p] \in {"Copy", "Move", "DirMove"} /\ pc[p] = "done" /\ ~up[p].sameType

\* C21: Copy, Move and DirMove with a source of another backend return
\* ErrorCantCopy, ErrorCantMove and ErrorCantDirMove, send no request to the
\* remote and create nothing on it
ForeignSourceRefused ==
    \A p \in Procs :
        ForeignDone(p) =>
            /\ ret[p] = CantError(op[p])
            /\ hist[p].requests = 0 /\ hist[p].creates = 0
            /\ svc = hist[p].before

\* the same for webdav alone
ForeignSourceRefusedDav == opt.backend = "webdav" => ForeignSourceRefused

\* webdav Move of an object of another backend was refused, after a Copy
\* from this backend had made its request
ForeignMoveRefused ==
    \E p \in Procs :
        /\ ForeignDone(p) /\ opt.backend = "webdav" /\ op[p] = "Move"
        /\ ret[p] = Err("ErrorCantMove")
        /\ hist[p].calls = MaxCalls /\ svc \notin CopyTrees

\* C22: once NewFs has returned, no operation on the Fs changes what Name,
\* Root, String and Precision return, nor the capabilities Features holds
HandleFrame ==
    [][fsh.pc = "built" =>
          /\ Name(fsh') = Name(fsh) /\ Root(fsh') = Root(fsh) /\ String(fsh') = String(fsh)
          /\ Precision(fsh') = Precision(fsh) /\ Features(fsh') = Features(fsh)]_vars

\* an operation on an owncloud Fs met 401 and the Fs took a second bearer token
HandleRefreshed ==
    /\ fsh.pc = "built" /\ opt.backend = "webdav" /\ opt.vendor = "owncloud"
    /\ fsh.last.ans = "http401" /\ fsh.bearerToken = 2
    /\ "PutStream" \in Features(fsh) /\ Precision(fsh) = "Second"

\* position i of the input holds a stand-in of a rule in force
StandIn(in, i, mask) ==
    \/ IsEncoded(in[i], mask)
    \/ \E e \in Edges(mask) : /\ in[i] = e.replace
                              /\ \/ e.edge = "edgeLeft" /\ i = 1
                                 \/ e.edge = "edgeRight" /\ i = Len(in)

\* the place in the output of the rune written for position i of the input
OutPos(cells, i) == i + Cardinality({j \in 1..i : cells[j].quote})

HashSetLaws ==
    query.pc = "done" =>
        /\ Count(query.ol) <= Min(Count(query.s), Count(query.t))
        /\ SubsetOf(query.s, query.ol) <=> SubsetOf(query.s, query.t)
        /\ \A f \in Families :
              Contains(query.ol, f) <=> Contains(query.s, f) /\ Contains(query.t, f)
        /\ Contains(query.added, query.h)
        /\ Count(query.added) = Count(query.s) + (IF Contains(query.s, query.h) THEN 0 ELSE 1)

\* the overlap of {MD5, SHA1} and {SHA1, CRC32} is {SHA1}, and Dropbox was
\* added to the first
HashSetsOverlapped ==
    /\ query.pc = "done" /\ query.s = 3 /\ query.t = 6 /\ query.ol = 2
    /\ query.h = HashType("Dropbox") /\ query.added = 11 /\ ~SubsetOf(query.s, query.t)

ArrayInEnumOrder ==
    query.pc = "done" =>
        /\ Len(query.array) = Count(query.set)
        /\ \A i, j \in 1..Len(query.array) : i < j => query.array[i] < query.array[j]
        /\ {query.array[i] : i \in 1..Len(query.array)} =
              {HashType(query.order[i]) : i \in 1..Len(query.order)}
        /\ query.string =
              "[" \o Join([i \in 1..Len(query.array) |-> TypeString(query.array[i])]) \o "]"
        /\ query.order = <<"SHA1", "MD5", "Dropbox", "QuickXorHash">> =>
              query.string = "[MD5, SHA-1, DropboxHash, QuickXorHash]"
        /\ query.order = <<"SHA1">> => query.string = "[SHA-1]"
        /\ query.order = << >> => query.string = "[]"

\* the set made of QuickXorHash, Dropbox, SHA1 and MD5, added in that order,
\* prints as the set of the test does
PrintedInEnumOrder ==
    /\ query.pc = "done" /\ query.order = <<"QuickXorHash", "Dropbox", "SHA1", "MD5">>
    /\ query.string = "[MD5, SHA-1, DropboxHash, QuickXorHash]" /\ Len(query.array) = 4

\* C27: the block list given to CommitBlockList has totalParts entries, the
\* ids under which part 1, part 2, ... were staged, in that order, all
\* distinct and of one length
BlockListOfParts ==
    \A p \in Procs :
        pc[p] = "um_commit" =>
            /\ Len(up[p].blocks) = up[p].totalParts
            /\ \A i \in 1..Len(up[p].blocks) : up[p].blocks[i] = blockIDIntToBase64(i)
            /\ \A i, j \in 1..Len(up[p].blocks) :
                  /\ Len(up[p].blocks[i]) = Len(up[p].blocks[j])
                  /\ i # j => up[p].blocks[i] # up[p].blocks[j]

\* a block list of twice totalParts entries is about to be committed: first
\* totalParts empty ids, then the ids of the parts in part order
BlockListDoubled ==
    \E p \in Procs :
        /\ pc[p] = "um_commit" /\ up[p].totalParts = 2
        /\ Len(up[p].blocks) = 2 * up[p].totalParts
        /\ \A i \in 1..up[p].totalParts :
              /\ up[p].blocks[i] = EmptyID
              /\ up[p].blocks[up[p].totalParts + i] = blockIDIntToBase64(i)

\* the bytes of the parts 1..n of caller p taken together
RECURSIVE PartBytes(_, _)
PartBytes(p, n) == IF n = 0 THEN 0 ELSE gor[p][n].reqSize + PartBytes(p, n - 1)

\* C28: the parts of a chunked upload partition the source: part i starts at
\* i*chunkSize and ends at the smaller of (i+1)*chunkSize and size, every
\* part but the last has chunkSize bytes, the last from 1 to chunkSize, and
\* the sizes sum to size
PartsPartitionSource ==
    \A p \in Procs :
        pc[p] = "um_commit" =>
            /\ Len(gor[p]) = up[p].totalParts
            /\ \A i \in 1..Len(gor[p]) :
                  LET g == gor[p][i]
                  IN /\ g.part = i - 1
                     /\ g.position = (i - 1) * up[p].chunkSize
                     /\ g.position + g.reqSize = Min(i * up[p].chunkSize, up[p].size)
                     /\ i < Len(gor[p]) => g.reqSize = up[p].chunkSize
                     /\ i = Len(gor[p]) => g.reqSize \in 1..up[p].chunkSize
            /\ PartBytes(p, Len(gor[p])) = up[p].size

\* the same of the parts that were read, whatever their number: each lies at
\* its place in the source, and all totalParts of them sum to size
PartsReadPartition ==
    \A p \in Procs :
        pc[p] = "um_commit" =>
            /\ \A i \in 1..Len(gor[p]) :
                  LET g == gor[p][i]
                  IN /\ g.part = i - 1
                     /\ g.position = (i - 1) * up[p].chunkSize
                     /\ g.position + g.reqSize = Min(i * up[p].chunkSize, up[p].size)
                     /\ g.reqSize \in 1..up[p].chunkSize
            /\ Len(gor[p]) = up[p].totalParts => PartBytes(p, Len(gor[p])) = up[p].size

\* the block list is about to be committed although reading the second of
\* two parts failed: one part of 2 bytes stands for a source of 3
CommitWithoutLastPart ==
    \E p \in Procs :
        /\ pc[p] = "um_commit" /\ hist[p].readFailed
        /\ up[p].size = 3 /\ up[p].totalParts = 2
        /\ Len(gor[p]) = 1 /\ PartBytes(p, Len(gor[p])) = 2

\* C30: azureblob Rmdir(dir) returns ErrorDirectoryNotEmpty only when dir
\* itself holds an entry, and nil for an empty sub-directory whatever else
\* the container holds
RmdirChecksItsDir ==
    \A p \in Procs :
        opt.backend = "azureblob" /\ op[p] = "Rmdir" /\ pc[p] = "done" =>
            /\ ret[p] = Err("ErrorDirectoryNotEmpty") => hist[p].hadEntry
            /\ up[p].ans = "ok" /\ ~hist[p].hadEntry /\ TargetDir(p) # << >> => ret[p] = Nil

\* Rmdir("a") on an Fs at the root of a container that holds b alone was
\* refused with ErrorDirectoryNotEmpty
RmdirRefusedForSibling ==
    \E p \in Procs :
        /\ opt.backend = "azureblob" /\ opt.root = << >>
        /\ op[p] = "Rmdir" /\ pc[p] = "done" /\ up[p].arg = <<"a">>
        /\ svc.files = {<<"b">>} /\ ~hist[p].hadEntry
        /\ ret[p] = Err("ErrorDirectoryNotEmpty")

\* C29: azureblob Rmdir never deletes a container that holds an object: when
\* the Delete of a Rmdir takes the container away, no blob was in it
RmdirDeletesEmpty ==
    [][\A p \in Procs :
          op[p] = "Rmdir" /\ pc[p] = "delc_req" /\ svc.container = "present"
              /\ svc'.container = "deleting"
          => svc.blobs = {} /\ svc.files = {}]_vars

\* Rmdir and Update both returned nil, and the container is gone with the
\* blob the Update had stored in it
BlobDeletedWithContainer ==
    \E p, q \in Procs :
        /\ op[p] = "Rmdir" /\ pc[p] = "done" /\ ret[p] = Nil /\ hist[p].deletes > 0
        /\ op[q] = "Update" /\ pc[q] = "done" /\ ret[q] = Nil
        /\ svc.container # "present" /\ svc.blobs = {}

\* C31: azureblob asks for the container to be deleted only from an Fs whose
\* root is the container: by Rmdir("") or by Purge on such an Fs; Rmdir of a
\* sub-directory and every call on an Fs below the container send no delete
\* request, and Purge on an Fs below the container returns ErrorCantPurge
DeleteOnlyAtContainerRoot ==
    \A p \in Procs :
        opt.backend = "azureblob" =>
            /\ (hist[p].deletes > 0 \/ pc[p] \in {"delc_lock", "delc_req"})
                   => /\ op[p] \in {"Rmdir", "Purge"}
                      /\ opt.root = << >>
                      /\ up[p].arg = << >>
            /\ (op[p] = "Purge" /\ pc[p] = "done" /\ opt.root # << >>)
                   => ret[p] = Err("ErrorCantPurge")

\* both ways were taken on one Fs at the container: a Purge sent a delete
\* request and a Rmdir("") sent one
ContainerDeletedBothWays ==
    \E p, q \in Procs :
        /\ opt.backend = "azureblob" /\ opt.root = << >>
        /\ op[p] = "Purge" /\ pc[p] = "done" /\ hist[p].deletes > 0
        /\ op[q] = "Rmdir" /\ pc[q] = "done" /\ hist[q].deletes > 0 /\ ret[q] = Nil

\* C32: after a container delete has succeeded on the Fs and until a Mkdir
\* succeeds, a listing returns ErrorDirNotFound without a request, and the
\* Mkdir of a Put, Update or Copy goes on to a Create request
DeleteInvalidatesMemo ==
    [][\A p \in Procs :
          hist[p].gone =>
              /\ (pc[p] = "list" /\ pc'[p] # "list")
                     => /\ pc'[p] = "done"
                        /\ ret'[p] = Err("ErrorDirNotFound")
                        /\ hist'[p].requests = 0
              /\ (pc[p] = "mkdir" /\ pc'[p] # "mkdir") => pc'[p] = "mkdir_create"]_vars

\* after a delete that succeeded, a Put found containerOK set by a listing
\* answered before the delete, sent no Create and lost its upload to
\* ContainerNotFound
PutAfterDeleteSkippedCreate ==
    \E p \in Procs :
        /\ op[p] = "Update" /\ pc[p] = "done"
        /\ hist[p].gone /\ hist[p].memo /\ hist[p].creates = 0
        /\ ret[p] = Err("ContainerNotFound")

\* C33: while nobody holds containerOKMu, containerOK and containerDeleted
\* are not both set, whatever Mkdir, List, Rmdir and Purge calls have run and
\* overlapped
FlagsExclusive ==
    containerOKMu = 0 => ~(containerOK /\ containerDeleted)

\* a Mkdir was answered ContainerBeingDeleted, tried again and returned, once
\* with the container made and once with the error, and the lock is free
MkdirRetriedWhileDeleting ==
    /\ containerOKMu = 0
    /\ \E p \in Procs :
         /\ op[p] = "Mkdir" /\ pc[p] = "done" /\ hist[p].creates > 1
         /\ \/ ret[p] = Nil /\ containerOK /\ hist[p].gone = FALSE
                /\ \E q \in Procs : hist[q].deletes > 0
            \/ ret[p].cause = "ContainerBeingDeleted" /\ containerDeleted

\* uploadMultipart of caller p has returned to Update
Returned(p) == up[p].path = "multipart" /\ pc[p] \in {"upd_after", "upd_meta", "done"}

\* C34: uploadMultipart always returns, whatever reads and StageBlock calls
\* fail and however many at once, and has put back every token it took: each
\* token is in the dispenser or with a part goroutine still running, and a
\* caller whose uploadMultipart has returned has no part goroutine left
UploadMultipartTerminates ==
    /\ [](uploadToken + InFlight = transfers)
    /\ [](\A p \in Procs : Returned(p) => Running(p) = {})
    /\ \A p \in Procs : (pc[p] = "um_start") ~> Returned(p)

\* two parts of one upload have failed at the same time: both goroutines
\* are about to report their error while uploadMultipart waits for them
TwoPartsFailingAtOnce ==
    \E p \in Procs :
        /\ pc[p] = "um_wait"
        /\ Len(gor[p]) = 2
        /\ \A i \in 1..2 : gor[p][i].pc = "report" /\ gor[p][i].last # Nil
        /\ uploadToken = 0

\* C35: an Object that holds metadata sends no request in readMetaData,
\* Size, ModTime and Hash, whatever the metadata is; a successful Update makes
\* it read the metadata once more, and it then has the size of the upload
MetadataReadOnce ==
    /\ (obj.last.op \in {"readMetaData", "Size", "ModTime", "Hash"} /\ obj.last.held)
           => ~obj.last.fetched
    /\ (obj.last.op = "Update" /\ obj.last.err = "nil")
           => obj.last.fetched /\ obj.o.size = obj.blob.size

\* MetadataReadOnce for webdav, and for azureblob when the time the Object
\* took from the blob is not the zero time
MetadataReadOnceNonZero ==
    (obj.backend = "azureblob" => ~IsZero(obj.o.modTime)) => MetadataReadOnce

\* an azureblob Object read a blob whose mtime is no timestamp, and sent a
\* request again for the next ModTime
MetadataReadAgain ==
    /\ obj.backend = "azureblob"
    /\ modTimeKey \in DOMAIN obj.blob.meta /\ obj.blob.meta[modTimeKey] = BadStamp
    /\ obj.last.op = "ModTime" /\ obj.last.held /\ obj.last.fetched /\ obj.last.err = "nil"

\* what the blob says of its modification time: the mtime of its metadata
\* when there is one that parses, else LastModified
StoredModTime(blob) ==
    IF modTimeKey \in DOMAIN blob.meta /\ ~ParseFails(blob.meta[modTimeKey])
    THEN Parse(blob.meta[modTimeKey])
    ELSE blob.lastModified

\* C36: azureblob ModTime returns the time parsed from the mtime key when the
\* key is there with a timestamp, and LastModified of the blob otherwise:
\* without the key, without metadata, with a value that is no timestamp
ModTimeFromMtimeOrLastModified ==
    (obj.backend = "azureblob" /\ obj.last.op = "ModTime" /\ obj.last.err = "nil")
        => obj.last.time = StoredModTime(obj.blob)

\* the same for the blobs whose mtime, if any, is a timestamp
ModTimeOfParseable ==
    (modTimeKey \in DOMAIN obj.blob.meta => ~ParseFails(obj.blob.meta[modTimeKey]))
        => ModTimeFromMtimeOrLastModified

\* ModTime of a blob whose mtime is no timestamp returned the zero time
ModTimeZeroForBadStamp ==
    /\ obj.backend = "azureblob"
    /\ modTimeKey \in DOMAIN obj.blob.meta /\ ParseFails(obj.blob.meta[modTimeKey])
    /\ obj.last.op = "ModTime" /\ obj.last.err = "nil"
    /\ IsZero(obj.last.time) /\ ~IsZero(obj.blob.lastModified)

\* C37: azureblob Copy returns nil, and with it the destination Object, only
\* when the copy on the service ended in success; when the last copy status
\* it saw is failed or aborted it returns an error
CopyOnlyWhenSucceeded ==
    \A p \in Procs :
        (opt.backend = "azureblob" /\ op[p] = "Copy" /\ pc[p] = "done" /\ up[p].sameType)
            => /\ ret[p] = Nil => up[p].ans \in {"ok", "success"}
               /\ up[p].ans \in {"failed", "aborted"} => ret[p] # Nil

\* Copy never leaves the polling loop while the status is pending, and
\* returns nil only after the status was other than pending
CopyWaitsWhilePending ==
    \A p \in Procs :
        (opt.backend = "azureblob" /\ op[p] = "Copy" /\ up[p].sameType
             /\ (pc[p] = "copy_new" \/ (pc[p] = "done" /\ ret[p] = Nil)))
            => up[p].ans \in {"ok", "success", "failed", "aborted"}

\* a Copy polled twice, saw the copy fail, and returned the destination
\* Object with no error
FailedCopyReturnedObject ==
    \E p \in Procs :
        /\ opt.backend = "azureblob" /\ op[p] = "Copy" /\ pc[p] = "done"
        /\ hist[p].lookups = 2 /\ up[p].ans = "failed"
        /\ ret[p] = Nil /\ filePath(p) \in svc.files

\* C38: webdav Update sends the body at most once; when the PUT fails it
\* sends a DELETE for the path of the object before it returns, and returns
\* the error of the PUT whatever the DELETE brought; when the PUT succeeds,
\* and when no PUT was sent, it sends no DELETE
FailedPutIsRemoved ==
    \A p \in Procs :
        (opt.backend = "webdav" /\ op[p] = "Update") =>
            /\ hist[p].puts <= 1
            /\ (hist[p].puts = 1 /\ hist[p].putErr # Nil)
                   => /\ pc[p] \in {"wd_remove", "done"}
                      /\ (pc[p] = "done" => hist[p].deletes >= 1 /\ ret[p] = hist[p].putErr)
            /\ (hist[p].puts = 0 \/ hist[p].putErr = Nil) => hist[p].deletes = 0

\* the PUT over an object that was there failed with 503, the DELETE was
\* tried as often as the pacer allows and never removed the object, and
\* Update returned the 503 of the PUT
PutErrorKeptAfterFailedDelete ==
    \E p \in Procs :
        /\ opt.backend = "webdav" /\ op[p] = "Update" /\ pc[p] = "done"
        /\ hist[p].puts = 1 /\ hist[p].putErr = Err("http503")
        /\ hist[p].deletes = Retries
        /\ filePath(p) \in svc.files
        /\ ret[p] = Err("http503")

\* webdav mkdir of caller p is under way with the frame on top
TopFrame(p) == up[p].stack[Len(up[p].stack)]

\* the frames of mkdir lead from the directory asked for towards the root,
\* the root itself is on the stack only when it is the directory asked for,
\* and a directory is tried again only after the root was its parent or its
\* parent was made
MkdirChain(p) ==
    /\ \A i \in 2..Len(up[p].stack) :
         /\ up[p].stack[i].dir = Dir(up[p].stack[i - 1].dir)
         /\ up[p].stack[i].dir # << >>
         /\ up[p].stack[i - 1].again
    /\ (pc[p] = "wd_mkdir" /\ Len(up[p].stack) > 0 /\ TopFrame(p).again /\ up[p].tries = 0)
           => \/ Dir(TopFrame(p).dir) = << >> /\ up[p].ans = "http409"
              \/ mkdirResult(up[p].ans) = Nil

\* C39 (as claimed): webdav mkdir returns for every path and every answer of
\* the server, follows the parents towards the root without a request for
\* the root, tries a directory again once and only after its parents were
\* made, and sends at most two MKCOL for one path component
MkdirTwoRequests ==
    /\ [](\A p \in Procs : opt.backend = "webdav" =>
             /\ MkdirChain(p)
             /\ \A d \in 1..MaxDepth : hist[p].mkcol[d] <= 2)
    /\ \A p \in Procs : (pc[p] = "wd_mkdir") ~> (pc[p] # "wd_mkdir")

\* C39 (amended): the same, with at most two calls of _mkdir for one path
\* component, each of which sends MKCOL as often as the pacer tries: at most
\* 2 * Retries requests
MkdirTwoCalls ==
    /\ [](\A p \in Procs : opt.backend = "webdav" =>
             /\ MkdirChain(p)
             /\ \A d \in 1..MaxDepth :
                  /\ hist[p].mkcalls[d] <= 2
                  /\ hist[p].mkcalls[d] <= hist[p].mkcol[d]
                  /\ hist[p].mkcol[d] <= Retries * hist[p].mkcalls[d])
    /\ \A p \in Procs : (pc[p] = "wd_mkdir") ~> (pc[p] # "wd_mkdir")

\* Mkdir of a/a/b where only the root was there: each of the three
\* directories was made, a/a/b and a/a after a 409 and a second _mkdir,
\* and the call returned nil
MkdirMadeChain ==
    \E p \in Procs :
        /\ opt.backend = "webdav" /\ op[p] = "Mkdir" /\ pc[p] = "done" /\ ret[p] = Nil
        /\ opt.root \o up[p].arg = <<"a", "a", "b">>
        /\ hist[p].mkcalls = [d \in 1..MaxDepth |-> IF d = 1 THEN 1 ELSE 2]
        /\ {<<"a">>, <<"a", "a">>, <<"a", "a", "b">>} \subseteq svc.dirs

\* the loop of Run has ended and Run resolves, or has resolved, the exit code
RunResolves == cmd.pc = "RunEnd" \/ (cmd.pc = "done" /\ cmd.resolved.by = "Run")

\* C40: whatever the configuration, when Run resolves the exit code it has
\* called the function of the command at least once and at most Retries
\* times, and exactly once when Retry is false
RunCallsFunction ==
    RunResolves =>
        /\ cmd.calls >= 1
        /\ cmd.calls <= cmd.Retries
        /\ (~cmd.Retry => cmd.calls = 1)

\* the same for the configurations with at least one attempt
RunCallsFunctionWithRetries == cmd.Retries >= 1 => RunCallsFunction

\* with no attempts configured Run resolved the exit code of a command that
\* never ran, as success
ResolvedWithoutCall ==
    /\ cmd.pc = "done" /\ cmd.resolved.by = "Run"
    /\ cmd.Retries = 0 /\ cmd.calls = 0
    /\ cmd.resolved.err.nil

====
